---------------------------- MODULE Spec2Model ----------------------------
(***************************************************************************)
(* p2p_scanner: the Kalshi connector (rate-limit retry, paging, per-market *)
(* probability / flow / depth), the mock connector, the poller that        *)
(* appends snapshots, the ranking query get_top and the publish filter of  *)
(* generate_site.                                                          *)
(*                                                                         *)
(* Units.  Probabilities are in permille (0.98 is 980), prices in tenths   *)
(* of a cent (50 cents is 500, so a price in tenths of a cent is the       *)
(* probability in permille), durations in milliseconds, volumes, flows and *)
(* depths in contracts, the mean and deviation of a flow history in        *)
(* hundredths, scores and the other real-valued quantities in thousandths. *)
(* Python's None is the integer None, below every value the program        *)
(* handles.                                                                *)
(*                                                                         *)
(* Layout: the state, then one section per source unit (its operators and  *)
(* its actions), then the specifications, then the claims.                 *)
(***************************************************************************)
EXTENDS Integers, Sequences, FiniteSets, TLC

VARIABLES
    \* ---- _get_json (kalshi.py 50-76)
    gj_pc,          \* "idle" | "loop" | "returned" | "raised_http" | "raised_transport" | "raised_429"
    gj_attempt,     \* iterations of the for loop completed
    gj_delay,       \* the local `delay`, ms
    gj_requests,    \* requests.get calls issued by this call
    gj_slept,       \* the argument of the last time.sleep of this call, ms (None: no sleep)
    gj_ra,          \* history: the Retry-After header of the last 429 response of this call
    srv_n429,       \* the server answers this many 429 responses ...
    srv_final,      \* ... and then this: "ok" | "error" | "transport"
    \* ---- the publish filter of generate_site.main (generate_site.py 181-195)
    pub_pc,         \* "ranked" | "filtered"
    pub_results,    \* `results` as get_top returned it
    pub_filtered,   \* `filtered`
    \* ---- KalshiConnector (kalshi.py 111-300)
    politics_series,\* self._politics_series, a sorted list of series tickers
    prev_volume,    \* self._prev_volume: ticker -> volume, None where the key is absent
    \* ---- one call of KalshiConnector.fetch_markets (kalshi.py 192-300)
    fm_pc,          \* "idle" | "page" | "markets" | "returned" | "raised"
    fm_pos,         \* [si, page, left, cursor]: series index, pages requested for it,
                    \* markets left on the current page, whether that page carries a cursor
    collected,      \* the local `collected` (the returned batch once fm_pc = "returned")
    seen,           \* the local `seen`
    fm_cause,       \* history: the request whose failure made the call raise ("none" | "page" | "detail")
    ob_failed,      \* history: tickers whose order-book step raised during this call
    prev_at_call,   \* history: prev_volume as it was when this call started
    \* ---- MockConnector (mock.py 4-26)
    mock_markets,   \* self.markets: market -> [p, flow, depth]
    mock_step,      \* the seeded generator: market -> the draw it adds to p at each fetch
    \* ---- the application: main.py, poll_once and the snapshot table
    app_pc,         \* "startup" (startup() is running its first _poll) | "running" (the
                    \* scheduler is started) | "failed" (startup() raised) | "script"
                    \* (generate_site.main: no scheduler)
    store,          \* the rows of market_snapshots, in insertion order
    now,            \* the last value datetime.utcnow() returned
    polls,          \* poll_once calls started
    last_poll,      \* history: how the last finished poll_once ended ("none" | "stored" | "raised")
    len_at_poll,    \* history: Len(store) when the last poll_once started
    running,        \* the runs of _poll in progress
    \* ---- get_top (poller.py 85-162)
    top_pc,         \* "none" | "done": whether top_result is the result of a finished call
    top_args,       \* [limit, max_p, min_score, min_hist] of that call
    top_survivors,  \* its local `results` before the sort of line 161
    top_result,     \* the list it returned
    \* history: what fetch_markets did with each ticker
    skip_hist,      \* ticker -> "never" | "now" (passed over for want of a probability
                    \* in the current call) | "before" (in an earlier call)
    \* ---- entropy (scoring.py 6-8) applied to a pair of probabilities
    en_pc,          \* "none" | "drawn" | "done"
    en_p, en_q,     \* the two probabilities, in permille
    en_H,           \* [p, mirror, q]: entropy(p), entropy(1 - p), entropy(q) once done
    \* ---- poll_once and get_top running side by side on the mock connector
    sv_batch,       \* the observations poll_once has still to add (line 62)
    pending,        \* the rows added to its session and not committed yet
    commits,        \* history: Len(store) after each commit (0: the empty table)
    q_keys,         \* get_top: the keys the loop of line 100 has still to visit
    q_latest,       \* get_top: the row id `latest` of the key being visited
    q_views,        \* history: how many rows each query of the call found in the table
    q_heads,        \* history: for each key the call scored, <<the row id `latest`,
                    \* the row id of the first value of `hist`>>
    \* ---- compute_score (scoring.py 22-27) applied to a latest snapshot and the
    \* flow history of its key (poller.py 128-135)
    sc_pc,          \* "none" | "drawn" | "done"
    sc_in,          \* [p, depth, hist]: hist[1] is the flow of the latest snapshot
    sc_bd,          \* [mu, sigma, bd] once done
    \* ---- _implied_p (kalshi.py 169-187) applied to a market dict
    ip_pc,          \* "none" | "drawn" | "done"
    ip_m,           \* the dict
    ip_out,         \* what it returned, once done
    \* ---- _discover_politics_series (kalshi.py 138-160) applied to the pages
    \* of the /series listing
    dv_pc,          \* "none" | "drawn" | "done"
    dv_pages,       \* the pages, each the list under its "series" key
    dv_out,         \* the list returned, once done
    \* ---- one run of the generator _iter_paged (kalshi.py 80-94)
    pg_pc,          \* "idle" | "top" (at the for) | "request" (in _get_json) | "yielded"
                    \* | "ended" | "closed" (by its consumer) | "raised"
    pg_max,         \* max_pages
    pg_cursor,      \* the local `cursor` (None, 0 for "", or a cursor)
    pg_pages,       \* iterations of the for loop started
    pg_sent,        \* history: the cursor each request carried (None: none)
    pg_got,         \* history: the cursor each page returned
    poll_ret,       \* history: what the last poll_once that returned returned (line 82)
    met             \* ticker -> [times: how often the current call met it on its
                    \* pages, emitted_at: the occurrence that gave its observation]

gjVars == <<gj_pc, gj_attempt, gj_delay, gj_requests, gj_slept, gj_ra, srv_n429, srv_final>>
pubVars == <<pub_pc, pub_results, pub_filtered>>
connVars == <<politics_series, prev_volume>>
fmVars == <<fm_pc, fm_pos, collected, seen, fm_cause, ob_failed, prev_at_call>>

mockVars == <<mock_markets, mock_step>>
appVars == <<app_pc, store, now, polls, last_poll, len_at_poll, running>>
topVars == <<top_pc, top_args, top_survivors, top_result>>
skipVars == <<skip_hist, met>>
\* The variables only one specification moves.
entVars == <<en_pc, en_p, en_q, en_H>>
serveVars == <<sv_batch, pending, commits, q_keys, q_latest, q_views, q_heads>>
scoreVars == <<sc_pc, sc_in, sc_bd>>
pollVars == <<poll_ret>>
quoteVars == <<ip_pc, ip_m, ip_out>>
discVars == <<dv_pc, dv_pages, dv_out>>
pageVars == <<pg_pc, pg_max, pg_cursor, pg_pages, pg_sent, pg_got>>
moreVars == <<scoreVars, pollVars, quoteVars, discVars, pageVars>>
restVars == <<skipVars, entVars, serveVars, moreVars>>

vars == <<gjVars, pubVars, connVars, fmVars, mockVars, appVars, topVars, restVars>>

\* What the actions of one unit leave alone.
GjFrame == UNCHANGED <<pubVars, connVars, fmVars, mockVars, appVars, topVars, restVars>>
PubFrame == UNCHANGED <<gjVars, connVars, fmVars, mockVars, appVars, topVars, restVars>>
ConnFrame == UNCHANGED <<gjVars, pubVars, mockVars, restVars>>

None == 0 - 1

Min(a, b) == IF a <= b THEN a ELSE b
Max(a, b) == IF a >= b THEN a ELSE b

(***************************************************************************)
(* _get_json: the retry loop around one GET.                               *)
(***************************************************************************)
max_retries == 6
DelayStart == 500
DelayCap == 8000
JitterMax == 250

\* The server sends at most this many 429 responses in a row.
MaxN429 == 8

\* Retry-After header of a 429 response: absent, a number of seconds, or text
\* float() rejects.
RetryAfterHeaders == {"absent", "2", "soon"}
JitterVals == {0, JitterMax}

\* Lines 58-65: the sleep before jitter.
SleepBase(ra, delay) ==
    IF ra = "absent" THEN delay
    ELSE IF ra = "2" THEN 2000
    ELSE delay

\* Line 70.
NextDelay_NoCap(delay) == delay * 2

NextDelay(delay) == Min(delay * 2, DelayCap)

\* Line 56: the response is a rate limit.
IsRateLimited_OrError(resp) == resp \in {"429", "error"}

IsRateLimited(resp) == resp = "429"

\* What the server answers to the next request of this call.
ServerResponse == IF gj_requests < srv_n429 THEN "429" ELSE srv_final

GjInit ==
    /\ gj_pc = "idle"
    /\ gj_attempt = 0
    /\ gj_delay = DelayStart
    /\ gj_requests = 0
    /\ gj_slept = None
    /\ gj_ra = "none"
    /\ srv_n429 = 0
    /\ srv_final = "ok"

GjDone == gj_pc \in {"returned", "raised_http", "raised_transport", "raised_429"}

\* _get_json is entered (lines 50-51), the server being about to answer n429
\* rate limits of `ns` and then a response of `finals`.
GetJsonEnter(ns, finals) ==
    /\ \E n \in ns, f \in finals :
          /\ srv_n429' = n
          /\ srv_final' = f
    /\ gj_pc' = "loop"
    /\ gj_attempt' = 0
    /\ gj_delay' = DelayStart
    /\ gj_requests' = 0
    /\ gj_slept' = None
    /\ gj_ra' = "none"

\* A caller enters _get_json; the environment fixes what the server is
\* going to answer.
GetJsonCall ==
    /\ gj_pc = "idle" \/ GjDone
    /\ GetJsonEnter(0..MaxN429, {"ok", "error", "transport"})
    /\ GjFrame

\* One iteration of the for loop (lines 52-74).
GetJsonAttempt ==
    /\ gj_pc = "loop"
    /\ gj_attempt < max_retries
    /\ gj_requests' = gj_requests + 1
    /\ UNCHANGED <<srv_n429, srv_final>>
    /\ \/ /\ IsRateLimited(ServerResponse)
          /\ \E ra \in RetryAfterHeaders, j \in JitterVals :
                /\ gj_slept' = SleepBase(ra, gj_delay) + j
                /\ gj_ra' = ra
          /\ gj_delay' = NextDelay(gj_delay)
          /\ gj_attempt' = gj_attempt + 1
          /\ gj_pc' = "loop"
       \/ /\ ~IsRateLimited(ServerResponse)
          /\ ServerResponse = "ok"
          /\ gj_pc' = "returned"
          /\ UNCHANGED <<gj_attempt, gj_delay, gj_slept, gj_ra>>
       \/ /\ ~IsRateLimited(ServerResponse)
          /\ ServerResponse = "error"
          /\ gj_pc' = "raised_http"
          /\ UNCHANGED <<gj_attempt, gj_delay, gj_slept, gj_ra>>
       \/ /\ ServerResponse = "transport"
          /\ gj_pc' = "raised_transport"
          /\ UNCHANGED <<gj_attempt, gj_delay, gj_slept, gj_ra>>
    /\ GjFrame

\* The loop is exhausted (line 76).
GetJsonExhausted ==
    /\ gj_pc = "loop"
    /\ gj_attempt >= max_retries
    /\ gj_pc' = "raised_429"
    /\ UNCHANGED <<gj_attempt, gj_delay, gj_requests, gj_slept, gj_ra, srv_n429, srv_final>>
    /\ GjFrame


(***************************************************************************)
(* _iter_paged (lines 80-94): a generator that requests a page, yields it  *)
(* and goes on with the cursor the page carries.  Cursors are numbers      *)
(* here: None when the page has no "cursor" key, 0 for the empty string,   *)
(* 1 and 2 for two cursors.                                                *)
(***************************************************************************)
\* The greatest max_pages a run is given.
MaxPagesArg == 3

CursorVals == {None, 0, 1, 2}

\* What a page request meets: a server answering at once, after a rate
\* limit, or with rate limits only; then a page or an HTTP error.
PagingN429 == {0, 1, max_retries}
PagingFinals == {"ok", "error"}

\* Mutant of Truthy: `if cursor is None`.
Truthy_NotNone(cursor) == cursor # None

\* `if cursor` (lines 86 and 93): neither None nor "".
Truthy(cursor) == cursor # None /\ cursor # 0

PagingFrame ==
    UNCHANGED <<pubVars, connVars, fmVars, mockVars, appVars, topVars, skipVars, entVars,
                serveVars, scoreVars, pollVars, quoteVars, discVars>>

\* The generator is created and run for the first time (line 81).
IterCall ==
    /\ pg_pc \in {"idle", "ended", "closed", "raised"}
    /\ pg_max' \in 0..MaxPagesArg
    /\ pg_pc' = "top"
    /\ pg_cursor' = None
    /\ pg_pages' = 0
    /\ pg_sent' = <<>>
    /\ pg_got' = <<>>
    /\ UNCHANGED gjVars
    /\ PagingFrame

\* An iteration of the for loop starts (lines 82-89): the url, with the
\* cursor if there is one, and the call of _get_json.
IterRequest ==
    /\ pg_pc = "top"
    /\ pg_pages < pg_max
    /\ pg_pages' = pg_pages + 1
    /\ pg_sent' = Append(pg_sent, IF Truthy(pg_cursor) THEN pg_cursor ELSE None)
    /\ GetJsonEnter(PagingN429, PagingFinals)
    /\ pg_pc' = "request"
    /\ UNCHANGED <<pg_max, pg_cursor, pg_got>>
    /\ PagingFrame

\* range(max_pages) is exhausted: the generator returns.
IterExhausted ==
    /\ pg_pc = "top"
    /\ pg_pages >= pg_max
    /\ pg_pc' = "ended"
    /\ UNCHANGED <<pg_max, pg_cursor, pg_pages, pg_sent, pg_got>>
    /\ UNCHANGED gjVars
    /\ PagingFrame

\* The steps of _get_json inside the request.
IterAttempt == pg_pc = "request" /\ GetJsonAttempt

IterRetriesExhausted == pg_pc = "request" /\ GetJsonExhausted

\* _get_json returned a page, which the generator yields (line 90).
IterYield ==
    /\ pg_pc = "request"
    /\ gj_pc = "returned"
    /\ \E c \in CursorVals : pg_got' = Append(pg_got, c)
    /\ pg_pc' = "yielded"
    /\ gj_pc' = "idle"
    /\ UNCHANGED <<gj_attempt, gj_delay, gj_requests, gj_slept, gj_ra, srv_n429, srv_final>>
    /\ UNCHANGED <<pg_max, pg_cursor, pg_pages, pg_sent>>
    /\ PagingFrame

\* _get_json raised: the exception leaves the generator.
IterRaise ==
    /\ pg_pc = "request"
    /\ gj_pc \in {"raised_http", "raised_transport", "raised_429"}
    /\ pg_pc' = "raised"
    /\ gj_pc' = "idle"
    /\ UNCHANGED <<gj_attempt, gj_delay, gj_requests, gj_slept, gj_ra, srv_n429, srv_final>>
    /\ UNCHANGED <<pg_max, pg_cursor, pg_pages, pg_sent, pg_got>>
    /\ PagingFrame

\* The consumer asks for the next page (lines 92-94).
IterResume ==
    /\ pg_pc = "yielded"
    /\ pg_cursor' = pg_got[Len(pg_got)]
    /\ pg_pc' = IF Truthy(pg_cursor') THEN "top" ELSE "ended"
    /\ UNCHANGED <<pg_max, pg_pages, pg_sent, pg_got>>
    /\ UNCHANGED gjVars
    /\ PagingFrame

\* The consumer leaves its loop (a break at the cap): the generator is
\* closed where it stands.
IterClose ==
    /\ pg_pc = "yielded"
    /\ pg_pc' = "closed"
    /\ UNCHANGED <<pg_max, pg_cursor, pg_pages, pg_sent, pg_got>>
    /\ UNCHANGED gjVars
    /\ PagingFrame
(***************************************************************************)
(* The publish filter of generate_site.main.                               *)
(***************************************************************************)
Z_MIN == 2500
DR_MIN == 50
H_MIN == 450
P_MIN == 50
P_MAX == 950

\* The ranked list handed to the filter has at most this many entries.
MaxPubLen == 2

\* `_opt_float(x) or 0.0` (lines 184-191).
OrZero(x) == IF x = None THEN 0 ELSE x

\* Mutant of PublishKeeps: the test on p without its upper end.
PublishKeeps_NoCeiling(r) ==
    LET p == OrZero(r.p) IN
    IF ~(P_MIN <= p) THEN FALSE
    ELSE IF OrZero(r.z_flow) < Z_MIN THEN FALSE
    ELSE IF OrZero(r.depth_ratio) < DR_MIN THEN FALSE
    ELSE IF OrZero(r.entropy) < H_MIN THEN FALSE
    ELSE TRUE

\* Lines 183-193: the body of the loop, TRUE when r is appended to filtered.
PublishKeeps(r) ==
    LET p == OrZero(r.p) IN
    IF ~(P_MIN <= p /\ p <= P_MAX) THEN FALSE
    ELSE IF OrZero(r.z_flow) < Z_MIN THEN FALSE
    ELSE IF OrZero(r.depth_ratio) < DR_MIN THEN FALSE
    ELSE IF OrZero(r.entropy) < H_MIN THEN FALSE
    ELSE TRUE

\* Lines 182-195.
PublishFilter(results) == SelectSeq(results, PublishKeeps)

\* Ranked entries around the thresholds, and the candidate of the spec's
\* example with its p = 0.97 variant.
PubCandidate == [z_flow |-> 3000, depth_ratio |-> 100, entropy |-> 500, p |-> 500]
PubEntries ==
    [z_flow : {2000, 2500, 3000}, depth_ratio : {40, 50}, entropy : {440, 450},
     p : {40, 50, 950, 970}]
    \cup {PubCandidate, [PubCandidate EXCEPT !.p = 970]}

PubLists == UNION {[1..n -> PubEntries] : n \in 0..MaxPubLen}

PubIdle ==
    /\ pub_pc = "ranked"
    /\ pub_results = <<>>
    /\ pub_filtered = <<>>

PubInit ==
    /\ pub_pc = "ranked"
    /\ pub_results \in PubLists
    /\ pub_filtered = <<>>

ApplyPublishFilter ==
    /\ pub_pc = "ranked"
    /\ pub_filtered' = PublishFilter(pub_results)
    /\ pub_pc' = "filtered"
    /\ UNCHANGED pub_results
    /\ PubFrame

(***************************************************************************)
(* KalshiConnector.                                                        *)
(*                                                                         *)
(* A market dict, nested in an events page or returned by /markets/{t}, is *)
(* a record of its logical attributes, each the first present of its       *)
(* aliases passed through _to_float (None: no alias present, or a value    *)
(* float() rejects): yes_bid, yes_ask, yes_price, last_price, volume.      *)
(* An events page is the flat list of the markets of its events, in order: *)
(* the three nested loops of fetch_markets visit them in that order and    *)
(* leave together when the cap is reached.                                 *)
(***************************************************************************)
band_cents == 3

\* self.limit_markets, and the page cap of the events listing, as configured
\* for the model.
limit_markets == 2
EVENTS_PAGES == 2
\* Markets on one events page.
MaxPerPage == 2

Tickers == {"A", "B"}
SeriesLists == {<<>>, <<"S1">>, <<"S1", "S2">>}

EmptyDict ==
    [yes_bid |-> None, yes_ask |-> None, yes_price |-> None, last_price |-> None,
     volume |-> None]

\* The quotes a market dict may carry: none, a bid and an ask, a quoted price.
QuoteShapes ==
    { EmptyDict,
      [EmptyDict EXCEPT !.yes_bid = 500, !.yes_ask = 500],
      [EmptyDict EXCEPT !.yes_price = 990] }
VolumeVals == {None, 100, 150}

MarketDicts == {[q EXCEPT !.volume = v] : q \in QuoteShapes, v \in VolumeVals}

\* An element of a page: a market dict with its ticker, or something the
\* loop passes over (not a dict, or without a ticker: lines 214-218).
PageItems ==
    {[kind |-> "market", ticker |-> t, m |-> m] : t \in Tickers, m \in MarketDicts}
    \cup {[kind |-> "junk", ticker |-> "A", m |-> EmptyDict]}

\* What _get_market_detail does when called: raises (the request fails), or
\* returns the "market" dict of the response ({} when the response has none).
DetailResponses ==
    {[raises |-> TRUE, m |-> EmptyDict]}
    \cup {[raises |-> FALSE, m |-> m] :
            m \in { EmptyDict,
                    [EmptyDict EXCEPT !.volume = 100],
                    [EmptyDict EXCEPT !.yes_bid = 500, !.yes_ask = 500, !.volume = 150] }}

\* What the order-book step meets: the YES levels it walks, and whether an
\* exception ends the walk after them (the request failing: no level walked).
Level1 == [px |-> 500, qty |-> 10]
Level2 == [px |-> 600, qty |-> 5]
OrderBooks ==
    { [raises |-> FALSE, levels |-> <<>>],
      [raises |-> FALSE, levels |-> <<Level2, Level1>>],
      [raises |-> TRUE, levels |-> <<>>],
      [raises |-> TRUE, levels |-> <<Level1>>] }

\* _implied_p (lines 169-187): permille, or None.
ClampP(p) == Max(Min(p, 999), 1)

\* Mutant of implied_p: the quoted price taken before the bid and the ask.
implied_p_PriceFirst(m) ==
    LET mid_cents ==
          IF m.yes_price # None THEN m.yes_price
          ELSE IF m.yes_bid # None /\ m.yes_ask # None /\ m.yes_bid > 0 /\ m.yes_ask > 0
          THEN (m.yes_bid + m.yes_ask) \div 2
          ELSE IF m.last_price # None THEN m.last_price
          ELSE None
    IN IF mid_cents = None THEN None ELSE ClampP(mid_cents)

implied_p(m) ==
    LET mid_cents ==
          IF m.yes_bid # None /\ m.yes_ask # None /\ m.yes_bid > 0 /\ m.yes_ask > 0
          THEN (m.yes_bid + m.yes_ask) \div 2
          ELSE IF m.yes_price # None THEN m.yes_price
          ELSE IF m.last_price # None THEN m.last_price
          ELSE None
    IN IF mid_cents = None THEN None ELSE ClampP(mid_cents)

\* _volume (lines 189-190).
volume(m) == IF m.volume = None THEN 0 ELSE m.volume

\* Mutant of FlowOf: the delta without the clamp at 0.
FlowOf_Unclamped(vol, prev_entry) ==
    LET prev == IF prev_entry = None THEN vol ELSE prev_entry
    IN vol - prev

\* Lines 243-244.
FlowOf(vol, prev_entry) ==
    LET prev == IF prev_entry = None THEN vol ELSE prev_entry
    IN Max(vol - prev, 0)

\* Lines 263-274: the quantities of the levels priced within the band.
RECURSIVE DepthInBand(_, _, _)
DepthInBand(levels, lo, hi) ==
    IF levels = <<>> THEN 0
    ELSE LET lvl == Head(levels)
         IN (IF lo <= lvl.px /\ lvl.px <= hi THEN lvl.qty ELSE 0)
            + DepthInBand(Tail(levels), lo, hi)

\* Mutant of DepthOf: an except clause that keeps what the walk had summed.
DepthOf_KeepsPartial(book, p) ==
    DepthInBand(book.levels, p - band_cents * 10, p + band_cents * 10)

\* Lines 257-276: the try block and its except clause.
DepthOf(book, p) ==
    LET mid_cents == p
        lo == mid_cents - band_cents * 10
        hi == mid_cents + band_cents * 10
        depth == DepthInBand(book.levels, lo, hi)
    IN IF book.raises THEN 0 ELSE depth

\* Lines 227-291 for one market dict m of ticker t not seen before, with the
\* detail response d and the order book b the environment holds for it:
\* what the body does ("raise" | "skip" | "emit"), the observation it appends
\* and whether the order-book step raised.
MarketBody(t, m, d, b, prev) ==
    LET p1 == implied_p(m)
        detail_for_p == p1 = None
        p == IF detail_for_p THEN implied_p(d.m) ELSE p1
        vol1 == volume(m)
        detail_for_vol == p # None /\ vol1 = 0 /\ ~detail_for_p
        vol == IF detail_for_vol THEN volume(d.m) ELSE vol1
    IN IF (detail_for_p \/ detail_for_vol) /\ d.raises
       THEN [what |-> "raise", obs |-> <<>>, ob_raised |-> FALSE]
       ELSE IF p = None
       THEN [what |-> "skip", obs |-> <<>>, ob_raised |-> FALSE]
       ELSE [what |-> "emit",
             obs |-> <<[platform |-> "kalshi", market_id |-> t, p |-> p,
                        flow |-> FlowOf(vol, prev[t]), depth |-> DepthOf(b, p),
                        volume_24h |-> vol]>>,
             ob_raised |-> b.raises]

ZeroPos == [si |-> 0, page |-> 0, left |-> 0, cursor |-> FALSE, more |-> FALSE]

\* Whether the loops standing at pos have anything left to visit: an element
\* of the page, a page the cursor announces, or a series.
MoreToVisit(pos) ==
    \/ pos.left > 1
    \/ pos.cursor /\ pos.page < EVENTS_PAGES
    \/ pos.si < Len(politics_series)

\* Where the loops go once a page is done (_iter_paged lines 92-94, then the
\* next series of line 201).
AfterPage(pos) ==
    IF pos.cursor /\ pos.page < EVENTS_PAGES
    THEN [pc |-> "page", pos |-> [pos EXCEPT !.left = 0, !.cursor = FALSE]]
    ELSE IF pos.si < Len(politics_series)
    THEN [pc |-> "page", pos |-> [ZeroPos EXCEPT !.si = pos.si + 1]]
    ELSE [pc |-> "returned", pos |-> ZeroPos]

\* Mutant of AfterItem: the loops without the cap checks.
AfterItem_NoCap(pos, n_collected) ==
    IF pos.left > 1 THEN [pc |-> "markets", pos |-> [pos EXCEPT !.left = pos.left - 1]]
    ELSE AfterPage(pos)

\* Where they go after one element of a page (lines 293-298 and 202-203).
\* more: the cap ended the loops with something left to visit.
AfterItem(pos, n_collected) ==
    IF n_collected >= limit_markets
    THEN [pc |-> "returned", pos |-> [ZeroPos EXCEPT !.more = MoreToVisit(pos)]]
    ELSE IF pos.left > 1 THEN [pc |-> "markets", pos |-> [pos EXCEPT !.left = pos.left - 1]]
    ELSE AfterPage(pos)

ConnInit ==
    /\ politics_series \in SeriesLists
    /\ prev_volume = [t \in Tickers |-> None]

FmInit ==
    /\ fm_pc = "idle"
    /\ fm_pos = ZeroPos
    /\ collected = <<>>
    /\ seen = {}
    /\ fm_cause = "none"
    /\ ob_failed = {}
    /\ prev_at_call = [t \in Tickers |-> None]

\* Mutant of FetchEnter: the series taken as found when none was.
FetchEnter_NoEmptyCheck ==
    /\ collected' = <<>>
    /\ seen' = {}
    /\ fm_cause' = "none"
    /\ ob_failed' = {}
    /\ prev_at_call' = prev_volume
    /\ IF limit_markets <= 0
       THEN fm_pc' = "returned" /\ fm_pos' = ZeroPos
       ELSE fm_pc' = "page" /\ fm_pos' = [ZeroPos EXCEPT !.si = 1]
    /\ UNCHANGED connVars

\* Mutant of FetchEnter: the set of seen tickers kept from call to call.
FetchEnter_KeepsSeen ==
    /\ collected' = <<>>
    /\ seen' = seen
    /\ fm_cause' = "none"
    /\ ob_failed' = {}
    /\ prev_at_call' = prev_volume
    /\ IF politics_series = <<>> \/ limit_markets <= 0
       THEN fm_pc' = "returned" /\ fm_pos' = ZeroPos
       ELSE fm_pc' = "page" /\ fm_pos' = [ZeroPos EXCEPT !.si = 1]
    /\ UNCHANGED connVars

\* fetch_markets is entered (lines 192-203).
FetchEnter ==
    /\ collected' = <<>>
    /\ seen' = {}
    /\ fm_cause' = "none"
    /\ ob_failed' = {}
    /\ prev_at_call' = prev_volume
    /\ IF politics_series = <<>> \/ limit_markets <= 0
       THEN fm_pc' = "returned" /\ fm_pos' = ZeroPos
       ELSE fm_pc' = "page" /\ fm_pos' = [ZeroPos EXCEPT !.si = 1]
    /\ UNCHANGED connVars

\* fetch_markets raises: its locals are gone.
FetchRaises(cause) ==
    /\ fm_pc' = "raised"
    /\ fm_cause' = cause
    /\ fm_pos' = ZeroPos
    /\ collected' = <<>>
    /\ seen' = {}
    /\ ob_failed' = {}

\* One request of _iter_paged for the current series (lines 82-90, 207).
PageRequest ==
    /\ fm_pc = "page"
    /\ \/ /\ FetchRaises("page")
          /\ UNCHANGED <<connVars, prev_at_call>>
       \/ /\ \E n \in 0..MaxPerPage, cursor \in BOOLEAN :
                LET pos == [fm_pos EXCEPT !.page = fm_pos.page + 1, !.left = n,
                                          !.cursor = cursor]
                    nxt == IF n = 0 THEN AfterPage(pos)
                           ELSE [pc |-> "markets", pos |-> pos]
                IN /\ fm_pc' = nxt.pc
                   /\ fm_pos' = nxt.pos
          /\ UNCHANGED <<connVars, collected, seen, fm_cause, ob_failed, prev_at_call>>

\* Mutant of AlreadySeen: no ticker is ever taken as seen.
AlreadySeen_Never(t, s) == FALSE

\* Line 220: the ticker was met earlier in this call.
AlreadySeen(t, s) == t \in s

\* Whether the body asks for the market detail (lines 230 and 238).
NeedsDetail(m) == implied_p(m) = None \/ volume(m) = 0

\* No order book asked for.
NoBook == [raises |-> FALSE, levels |-> <<>>]

\* Whether the body gets as far as the order-book step (line 257), the
\* detail response being d.
ReachesBook(m, d) == MarketBody("A", m, d, NoBook, [t \in Tickers |-> None]).what = "emit"

\* The element `item` of the current page (lines 213-294), the upstream
\* serving a detail of `details` and an order book of `books`.
ProcessItem(item, details, books) ==
          IF item.kind = "junk" \/ AlreadySeen(item.ticker, seen)
          THEN LET nxt == AfterItem(fm_pos, Len(collected))
               IN /\ fm_pc' = nxt.pc
                  /\ fm_pos' = nxt.pos
                  /\ UNCHANGED <<connVars, collected, seen, fm_cause, ob_failed, prev_at_call>>
          ELSE \E d \in IF NeedsDetail(item.m) THEN details
                         ELSE {[raises |-> FALSE, m |-> EmptyDict]} :
               \E b \in IF ReachesBook(item.m, d) THEN books ELSE {NoBook} :
               LET t == item.ticker
                   r == MarketBody(t, item.m, d, b, prev_volume)
                   nxt == AfterItem(fm_pos, Len(collected) + Len(r.obs))
               IN CASE r.what = "raise" ->
                         /\ FetchRaises("detail")
                         /\ UNCHANGED <<connVars, prev_at_call>>
                    [] r.what = "skip" ->
                         /\ seen' = seen \cup {t}
                         /\ fm_pc' = nxt.pc
                         /\ fm_pos' = nxt.pos
                         /\ UNCHANGED <<connVars, collected, fm_cause, ob_failed, prev_at_call>>
                    [] r.what = "emit" ->
                         /\ seen' = seen \cup {t}
                         /\ prev_volume' = [prev_volume EXCEPT ![t] = r.obs[1].volume_24h]
                         /\ collected' = collected \o r.obs
                         /\ ob_failed' = IF r.ob_raised THEN ob_failed \cup {t} ELSE ob_failed
                         /\ fm_pc' = nxt.pc
                         /\ fm_pos' = nxt.pos
                         /\ UNCHANGED <<politics_series, fm_cause, prev_at_call>>

\* One element of the current page, the upstream serving an element of
\* `items`.
ProcessMarketIn(items, details, books) ==
    /\ fm_pc = "markets"
    /\ \E item \in items : ProcessItem(item, details, books)

ProcessMarket == ProcessMarketIn(PageItems, DetailResponses, OrderBooks)

\* The connector driven on its own: a caller calls fetch_markets again and
\* again on one instance.
FetchCall ==
    /\ fm_pc \in {"idle", "returned", "raised"}
    /\ FetchEnter
    /\ ConnFrame /\ UNCHANGED <<appVars, topVars>>

FetchPage == PageRequest /\ ConnFrame /\ UNCHANGED <<appVars, topVars>>

FetchMarket == ProcessMarket /\ ConnFrame /\ UNCHANGED <<appVars, topVars>>


\* ---- fetch_markets called again and again on one series whose markets come
\* with or without a quote, followed with what became of each ticker.
SkipItems ==
    {[kind |-> "market", ticker |-> t, m |-> m] :
        t \in Tickers,
        m \in { [EmptyDict EXCEPT !.volume = 100],
                [EmptyDict EXCEPT !.yes_bid = 500, !.yes_ask = 500, !.volume = 100] }}
SkipDetails ==
    { [raises |-> TRUE, m |-> EmptyDict],
      [raises |-> FALSE, m |-> EmptyDict],
      [raises |-> FALSE,
       m |-> [EmptyDict EXCEPT !.yes_bid = 500, !.yes_ask = 500, !.volume = 150]] }
\* The order book: a level in the band, of a quantity of either sign (the
\* quantity is whatever number the response carries: lines 266-274).
Level3 == [px |-> 510, qty |-> 0 - 5]
SkipBooks ==
    { [raises |-> FALSE, levels |-> <<Level1>>],
      [raises |-> FALSE, levels |-> <<Level3>>] }

\* The occurrences of a ticker are counted up to MaxMet.
MaxMet == 2
NotMet == [t \in Tickers |-> [times |-> 0, emitted_at |-> 0]]

SkipFrame ==
    UNCHANGED <<gjVars, pubVars, mockVars, appVars, topVars, entVars, serveVars, moreVars>>

SkipCall ==
    /\ fm_pc \in {"idle", "returned", "raised"}
    /\ FetchEnter
    /\ skip_hist' = [t \in Tickers |->
                        IF skip_hist[t] = "now" THEN "before" ELSE skip_hist[t]]
    /\ met' = NotMet
    /\ SkipFrame

SkipPage == PageRequest /\ UNCHANGED <<skip_hist, met>> /\ SkipFrame

\* The body run on one element; a ticker is passed over for want of a
\* probability when the step marks it seen and appends nothing (line 234).
SkipMarket ==
    /\ fm_pc = "markets"
    /\ \E item \in SkipItems :
          /\ ProcessItem(item, SkipDetails, SkipBooks)
          /\ met' = LET times == Min(met[item.ticker].times + 1, MaxMet)
                    IN [met EXCEPT ![item.ticker] =
                          [times |-> times,
                           emitted_at |-> IF Len(collected') > Len(collected)
                                          THEN times ELSE @.emitted_at]]
    /\ skip_hist' = [t \in Tickers |->
                        IF t \in seen' \ seen /\ Len(collected') = Len(collected)
                        THEN "now" ELSE skip_hist[t]]
    /\ SkipFrame

(***************************************************************************)
(* _implied_p on its own: the quotes a market dict may carry, each field   *)
(* absent, zero, or a price (in tenths of a cent).                         *)
(***************************************************************************)
QuoteBids == {None, 0, 400}
QuoteAsks == {None, 0, 420}
QuotePrices == {None, 0, 300, 1200}
QuoteLasts == {None, 200, 0 - 50}

QuoteDicts ==
    {[EmptyDict EXCEPT !.yes_bid = b, !.yes_ask = a, !.yes_price = y, !.last_price = l] :
        b \in QuoteBids, a \in QuoteAsks, y \in QuotePrices, l \in QuoteLasts}

QuoteInit ==
    /\ ip_pc = "drawn"
    /\ ip_m \in QuoteDicts
    /\ ip_out = None

QuoteApply ==
    /\ ip_pc = "drawn"
    /\ ip_pc' = "done"
    /\ ip_out' = implied_p(ip_m)
    /\ UNCHANGED ip_m
    /\ UNCHANGED <<gjVars, pubVars, connVars, fmVars, mockVars, appVars, topVars, skipVars,
                   entVars, serveVars, scoreVars, pollVars, discVars,
                   pageVars>>

(***************************************************************************)
(* Discovery of the politics series (kalshi.py 97-108 and 138-160).  A     *)
(* text is a sequence of characters; the keywords followed are two of the  *)
(* list of lines 103-107.                                                  *)
(***************************************************************************)
\* The characters of the texts, by code point.
Alphabet == <<" ", "G", "O", "P", "g", "l", "o", "p", "x">>
CodePoint(c) == CHOOSE n \in DOMAIN Alphabet : Alphabet[n] = c

keys == {<<"g", "o", "p">>, <<"p", "o", "l", "l">>}

\* str.lower.
LowerChar(c) ==
    CASE c = "G" -> "g" [] c = "O" -> "o" [] c = "P" -> "p" [] OTHER -> c
lower(text) == [i \in DOMAIN text |-> LowerChar(text[i])]

\* str.strip.
RECURSIVE lstrip(_)
lstrip(text) ==
    IF text # <<>> /\ Head(text) = " " THEN lstrip(Tail(text)) ELSE text
RECURSIVE rstrip(_)
rstrip(text) ==
    IF text # <<>> /\ text[Len(text)] = " "
    THEN rstrip(SubSeq(text, 1, Len(text) - 1)) ELSE text
strip(text) == rstrip(lstrip(text))

\* k in text.
Contains(text, k) ==
    \E i \in 1..(Len(text) - Len(k) + 1) : SubSeq(text, i, i + Len(k) - 1) = k

\* a or b, for texts: a key that is absent, None or "" is the empty text
\* here, every use of these values being `x or ...` or `if not x`.
Falsy(x) == x = <<>>
Or(a, b) == IF Falsy(a) THEN b ELSE a

\* Mutant of looks_politics_series: the ticker searched as well as the title.
looks_politics_series_AnyField(s) ==
    LET cat == lower(Or(s.category, <<>>))
        title == lower(Or(s.title, <<>>) \o <<" ">> \o Or(s.name, <<>>) \o <<" ">>
                       \o Or(s.ticker, <<>>))
        text == strip(cat \o <<" ">> \o title)
    IN \E k \in keys : Contains(text, k)

\* _looks_politics_series (lines 97-108).
looks_politics_series(s) ==
    LET cat == lower(Or(s.category, <<>>))
        title == lower(Or(Or(Or(s.title, s.name), s.ticker), <<>>))
        text == strip(cat \o <<" ">> \o title)
    IN \E k \in keys : Contains(text, k)

\* t of line 149.
TickerOf(s) == Or(s.ticker, s.series_ticker)

\* The order of str: by code point, a prefix first.
RECURSIVE StrLess(_, _)
StrLess(a, b) ==
    IF b = <<>> THEN FALSE
    ELSE IF a = <<>> THEN TRUE
    ELSE IF Head(a) = Head(b) THEN StrLess(Tail(a), Tail(b))
    ELSE CodePoint(Head(a)) < CodePoint(Head(b))

\* list.sort (line 159).
RECURSIVE InsertSorted(_, _)
InsertSorted(sorted, t) ==
    IF sorted = <<>> THEN <<t>>
    ELSE IF StrLess(t, Head(sorted)) THEN <<t>> \o sorted
    ELSE <<Head(sorted)>> \o InsertSorted(Tail(sorted), t)
RECURSIVE SortTickers(_)
SortTickers(ts) ==
    IF ts = <<>> THEN <<>> ELSE InsertSorted(SortTickers(Tail(ts)), Head(ts))

\* The loop of lines 143-156 over the elements of one page.
RECURSIVE DiscoverItems(_, _)
DiscoverItems(items, tickers) ==
    IF items = <<>> THEN tickers
    ELSE LET s == Head(items)
             t == TickerOf(s.d)
             keep == /\ s.kind = "dict"
                     /\ looks_politics_series(s.d)
                     /\ ~Falsy(t)
                     /\ \A i \in DOMAIN tickers : tickers[i] # t
         IN DiscoverItems(Tail(items), IF keep THEN Append(tickers, t) ELSE tickers)

\* The loop of line 142 over the pages.
RECURSIVE DiscoverPages(_, _)
DiscoverPages(pages, tickers) ==
    IF pages = <<>> THEN tickers
    ELSE DiscoverPages(Tail(pages), DiscoverItems(Head(pages), tickers))

\* _discover_politics_series (lines 138-160).
discover_politics_series(pages) == SortTickers(DiscoverPages(pages, <<>>))

\* ---- what the listing may hold.  The texts: one holding a keyword in
\* capitals, one holding a keyword in lower case, one holding none.
TextGOP == <<"G", "O", "P">>
TextPoll == <<"x", "p", "o", "l", "l">>
TextGo == <<"g", "o">>
TextPx == <<"p", "x">>

NoSeries ==
    [category |-> <<>>, title |-> <<>>, name |-> <<>>, ticker |-> <<>>,
     series_ticker |-> <<>>]
SeriesDicts ==
    [category : {<<>>, TextGOP, TextGo},
     title : {<<>>, TextPoll, TextPx},
     name : {<<>>, TextPoll},
     ticker : {<<>>, TextGOP, TextPx},
     series_ticker : {<<>>, TextGo}]
SeriesItems ==
    {[kind |-> "dict", d |-> d] : d \in SeriesDicts}
    \cup {[kind |-> "other", d |-> NoSeries]}

\* The elements of the listing are followed up to this many.
MaxSeries == 2

\* The pages of a listing of n elements: all on one page, or one a page.
Listings ==
    UNION {[1..n -> SeriesItems] : n \in 0..MaxSeries}
PagesOf(items) ==
    {<<items>>, [n \in DOMAIN items |-> <<items[n]>>]}

DiscoverInit ==
    /\ dv_pc = "drawn"
    /\ dv_pages \in UNION {PagesOf(items) : items \in Listings}
    /\ dv_out = <<>>

DiscoverApply ==
    /\ dv_pc = "drawn"
    /\ dv_pc' = "done"
    /\ dv_out' = discover_politics_series(dv_pages)
    /\ UNCHANGED dv_pages
    /\ UNCHANGED <<gjVars, pubVars, connVars, fmVars, mockVars, appVars, topVars, skipVars,
                   entVars, serveVars, scoreVars, pollVars, quoteVars,
                   pageVars>>
(***************************************************************************)
(* scoring.py.  Floats are fixed point: a real x is the integer            *)
(* floor(x * FP), FP = 1000, except inside Ln and Exp, which work in       *)
(* ten-thousandths (IP) and round their result to thousandths.             *)
(***************************************************************************)
FP == 1000
IP == 10000
LN2 == 6931          \* ln 2, in IP
LN_1E9 == 20723      \* ln 10^9, in FP: -ln EPS

\* floor(sqrt(n)), by bisection on [lo, hi].
RECURSIVE SqrtBetween(_, _, _)
SqrtBetween(n, lo, hi) ==
    IF lo >= hi THEN lo
    ELSE LET mid == (lo + hi + 1) \div 2
         IN IF mid * mid <= n THEN SqrtBetween(n, mid, hi)
            ELSE SqrtBetween(n, lo, mid - 1)
ISqrt(n) == IF n <= 0 THEN 0 ELSE SqrtBetween(n, 0, Min(n, 46340))

\* ln m for m in [1, 2) (m in IP, result in IP): 2 * atanh((m - 1) / (m + 1)).
LnMantissa(m) ==
    LET y == ((m - IP) * IP) \div (m + IP)
        y2 == (y * y) \div IP
        y3 == (y * y2) \div IP
        y5 == (y3 * y2) \div IP
        y7 == (y5 * y2) \div IP
    IN 2 * (y + y3 \div 3 + y5 \div 5 + y7 \div 7)

\* ln x for x > 0 in IP, result in IP: x is brought into [1, 2) by halving
\* or doubling.
RECURSIVE LnIP(_)
LnIP(x) ==
    IF x >= 2 * IP THEN LN2 + LnIP(x \div 2)
    ELSE IF x < IP THEN LnIP(x * 2) - LN2
    ELSE LnMantissa(x)

\* math.log: x > 0 in FP, result in FP (rounded to nearest).
Ln(x) == (LnIP(x * 10) + 5) \div 10

\* e^(-r) for r in [0, ln 2) (IP), by its Taylor polynomial.
ExpNegSmall(r) ==
    LET r2 == (r * r) \div IP
        r3 == (r2 * r) \div IP
        r4 == (r3 * r) \div IP
        r5 == (r4 * r) \div IP
        r6 == (r5 * r) \div IP
    IN IP - r + r2 \div 2 - r3 \div 6 + r4 \div 24 - r5 \div 120 + r6 \div 720

RECURSIVE Halve(_, _)
Halve(x, k) == IF k = 0 THEN x ELSE Halve(x \div 2, k - 1)

\* math.exp(-a) for a >= 0 in FP, result in IP.
ExpNeg(a) ==
    LET a_ip == a * 10
        k == a_ip \div LN2
    IN IF k >= 14 THEN 0 ELSE Halve(ExpNegSmall(a_ip - k * LN2), k)

\* Mutant of entropy: the term of p alone.
entropy_OneSided(p) ==
    LET q == Min(Max(p, 0), 1000)
        plogp(x) == IF x = 0 THEN 0 ELSE x * LnIP(x * 10)
    IN (0 - plogp(q) + (IP \div 2)) \div IP

\* entropy (lines 6-8), p in permille: EPS = 1e-9 is below a permille, so
\* the clamp is to [0, 1] and p ln p is 0 at both ends.  The sum is formed
\* in IP and rounded once, to the nearest thousandth.
entropy(p) ==
    LET q == Min(Max(p, 0), 1000)
        plogp(x) == IF x = 0 THEN 0 ELSE x * LnIP(x * 10)
    IN (0 - (plogp(q) + plogp(1000 - q)) + (IP \div 2)) \div IP

\* softplus (lines 10-13): log1p(exp(x)) = max(x, 0) + log1p(exp(-|x|)).
softplus(x) ==
    IF x > 30 * FP THEN x
    ELSE LET a == IF x >= 0 THEN x ELSE 0 - x
         IN Max(x, 0) + (LnIP(IP + ExpNeg(a)) + 5) \div 10

\* z of line 23 when sigma + EPS is below a thousandth: the quotient by EPS,
\* saturated.
ZSat == 50 * FP
\* r of line 24 when depth is 0: the quotient by EPS, saturated.
RSat == 1000 * FP

\* (flow - mu) / (sigma + EPS): flow in units, mu and sigma in hundredths.
ZFlow(flow, mu, sigma) ==
    LET num == flow * 100 - mu
    IN IF sigma > 0 THEN (num * FP) \div sigma
       ELSE IF num = 0 THEN 0
       ELSE IF num > 0 THEN ZSat ELSE 0 - ZSat

\* flow / (depth + EPS), flow and depth in units.
DepthRatio(flow, depth) ==
    IF depth > 0 THEN (flow * FP) \div depth
    ELSE IF flow = 0 THEN 0
    ELSE IF flow > 0 THEN RSat ELSE 0 - RSat

\* math.log1p(max(r, 0)) for r = flow / (depth + EPS).
Log1pRatio(flow, depth) ==
    IF flow <= 0 THEN 0
    ELSE IF depth > 0 THEN Ln(FP + (flow * FP) \div depth)
    ELSE Ln(flow * FP) + LN_1E9

\* Mutant of compute_score: z in the place of softplus(z).
compute_score_RawZ(p, flow, depth, mu, sigma) ==
    LET z == ZFlow(flow, mu, sigma)
        r == DepthRatio(flow, depth)
        H == entropy(p)
        score == (((z * Log1pRatio(flow, depth)) \div FP) * H) \div FP
    IN [z_flow |-> z, depth_ratio |-> r, H |-> H, score |-> score]

\* compute_score (lines 22-27); p in permille.
compute_score(p, flow, depth, mu, sigma) ==
    LET z == ZFlow(flow, mu, sigma)
        r == DepthRatio(flow, depth)
        H == entropy(p)
        score == (((softplus(z) * Log1pRatio(flow, depth)) \div FP) * H) \div FP
    IN [z_flow |-> z, depth_ratio |-> r, H |-> H, score |-> score]


\* ---- entropy applied to two probabilities p and q of [EPS, 1 - EPS], and
\* to 1 - p.  The probabilities are the multiples of PStep permille, the
\* two ends of the range, and 0.5 with its two neighbours.  The values have
\* the resolution of the arithmetic, a thousandth here where a float has
\* 2^-53 of its value: two probabilities whose entropies differ by less
\* get one value, here as there.
PStep == 50
EntropyInputs ==
    {1, 499, 500, 501, 999} \cup {PStep * k : k \in 1..(999 \div PStep)}

EntInit ==
    /\ en_pc = "drawn"
    /\ en_p \in EntropyInputs
    /\ en_q \in EntropyInputs
    /\ en_H = [p |-> None, mirror |-> None, q |-> None]

EntIdle ==
    /\ en_pc = "none"
    /\ en_p = None
    /\ en_q = None
    /\ en_H = [p |-> None, mirror |-> None, q |-> None]

EntropyApply ==
    /\ en_pc = "drawn"
    /\ en_pc' = "done"
    /\ en_H' = [p |-> entropy(en_p), mirror |-> entropy(1000 - en_p), q |-> entropy(en_q)]
    /\ UNCHANGED <<en_p, en_q>>
    /\ UNCHANGED <<gjVars, pubVars, connVars, fmVars, mockVars, appVars, topVars, skipVars,
                   serveVars, moreVars>>
(***************************************************************************)
(* The snapshot table and get_top (poller.py 85-162).  A row is            *)
(* [platform, market_id, ts, p, flow, depth, volume_24h]; its primary key  *)
(* is its position in store.                                               *)
(***************************************************************************)
ROLLING_N == 2
MaxLimit == 2

Limits == (0 - 1)..MaxLimit
MaxPs == {980}
MinScores == {0, 10}
MinHists == {2, 3}
TopArgs == [limit : Limits, max_p : MaxPs, min_score : MinScores, min_hist : MinHists]

KeyOf(r) == <<r.platform, r.market_id>>
Keys(s) == {KeyOf(s[i]) : i \in DOMAIN s}
IdsOf(s, k) == {i \in DOMAIN s : KeyOf(s[i]) = k}

\* db.add of one observation (poll_once lines 62-79): a new row, whatever
\* the rows already there.
AppendRow_Upsert(s, row) ==
    IF \E i \in DOMAIN s : KeyOf(s[i]) = KeyOf(row) /\ s[i].ts = row.ts
    THEN [i \in DOMAIN s |->
            IF KeyOf(s[i]) = KeyOf(row) /\ s[i].ts = row.ts THEN row ELSE s[i]]
    ELSE Append(s, row)

AppendRow(s, row) == Append(s, row)

RowOf(obs, ts) ==
    [platform |-> obs.platform, market_id |-> obs.market_id, ts |-> ts,
     p |-> obs.p, flow |-> obs.flow, depth |-> obs.depth,
     volume_24h |-> obs.volume_24h]

\* The rows of a batch, added in batch order with one timestamp.
RECURSIVE AppendBatch(_, _, _)
AppendBatch(s, batch, ts) ==
    IF batch = <<>> THEN s
    ELSE AppendBatch(AppendRow(s, RowOf(Head(batch), ts)), Tail(batch), ts)

\* select distinct (platform, market_id) (lines 95-97): the keys, in an
\* order the query does not fix.
KeyOrders(s) ==
    LET ks == Keys(s)
        n == Cardinality(ks)
    IN {o \in [1..n -> ks] : \A i, j \in 1..n : i # j => o[i] # o[j]}


\* Mutant of NewestFirst: ORDER BY ts ASC.
NewestFirst_Ascending(s, k, n) ==
    LET ids == IdsOf(s, k)
        m == Min(Max(n, 0), Cardinality(ids))
    IN {q \in [1..m -> ids] :
          /\ \A i, j \in 1..m : i < j => q[i] # q[j] /\ s[q[i]].ts <= s[q[j]].ts
          /\ \A x \in ids :
                (\A i \in 1..m : q[i] # x) => \A i \in 1..m : s[x].ts >= s[q[i]].ts}

\* ORDER BY ts DESC LIMIT n over the rows of one key (lines 101-109 and
\* 118-126): the row ids any such query may return.  Rows with equal ts come
\* in an order the query does not fix.
NewestFirst(s, k, n) ==
    LET ids == IdsOf(s, k)
        m == Min(Max(n, 0), Cardinality(ids))
    IN {q \in [1..m -> ids] :
          /\ \A i, j \in 1..m : i < j => q[i] # q[j] /\ s[q[i]].ts >= s[q[j]].ts
          /\ \A x \in ids :
                (\A i \in 1..m : q[i] # x) => \A i \in 1..m : s[x].ts <= s[q[i]].ts}

LatestChoices(s) ==
    {f \in [Keys(s) -> DOMAIN s] : \A k \in Keys(s) : <<f[k]>> \in NewestFirst(s, k, 1)}

HistChoices(s) ==
    {h \in [Keys(s) -> UNION {NewestFirst(s, k, ROLLING_N) : k \in Keys(s)}] :
        \A k \in Keys(s) : h[k] \in NewestFirst(s, k, ROLLING_N)}

RECURSIVE SumSeq(_)
SumSeq(xs) == IF xs = <<>> THEN 0 ELSE Head(xs) + SumSeq(Tail(xs))

\* mu of line 131, in hundredths.
Mean(hist) == (SumSeq(hist) * 100) \div Len(hist)

\* sum((x - mu) ** 2 for x in hist), in ten-thousandths.
RECURSIVE SumSqDev(_, _)
SumSqDev(xs, mu) ==
    IF xs = <<>> THEN 0
    ELSE (Head(xs) * 100 - mu) * (Head(xs) * 100 - mu) + SumSqDev(Tail(xs), mu)

\* Mutant of Sigma: the deviation of the population (denominator len(hist)).
Sigma_Population(hist) == ISqrt(SumSqDev(hist, Mean(hist)) \div Len(hist))

\* sigma of lines 132-133, in hundredths.
Sigma(hist) == ISqrt(SumSqDev(hist, Mean(hist)) \div Max(Len(hist) - 1, 1))

\* The flows the history query returned (line 126).
HistFlows(s, hq) == [i \in 1..Len(hq) |-> s[hq[i]].flow]

\* bd of line 135.
Breakdown(latest, hist) ==
    compute_score(latest.p, latest.flow, latest.depth, Mean(hist), Sigma(hist))

\* The dictionary of lines 139-158.
EntryOf(latest, bd) ==
    [platform |-> latest.platform, market_id |-> latest.market_id,
     ts |-> latest.ts, p |-> latest.p, flow |-> latest.flow,
     depth |-> latest.depth, z_flow |-> bd.z_flow,
     depth_ratio |-> bd.depth_ratio, entropy |-> bd.H, score |-> bd.score,
     volume_24h |-> latest.volume_24h]

\* The body of the loop of line 100 for one key: the entry it appends to
\* `results`, or nothing.  lid is the row the first query returned, hq the
\* rows the second returned.
Candidate_NoCeiling(s, lid, hq, args) ==
    LET latest == s[lid]
        hist == HistFlows(s, hq)
    IN IF latest.p = None \/ latest.flow = None \/ latest.depth = None THEN <<>>
       ELSE IF Len(hist) < args.min_hist THEN <<>>
       ELSE IF Breakdown(latest, hist).score < args.min_score THEN <<>>
       ELSE <<EntryOf(latest, Breakdown(latest, hist))>>

Candidate_NoMinHist(s, lid, hq, args) ==
    LET latest == s[lid]
        hist == HistFlows(s, hq)
    IN IF latest.p = None \/ latest.flow = None \/ latest.depth = None THEN <<>>
       ELSE IF latest.p > args.max_p THEN <<>>
       ELSE IF Breakdown(latest, hist).score < args.min_score THEN <<>>
       ELSE <<EntryOf(latest, Breakdown(latest, hist))>>

Candidate(s, lid, hq, args) ==
    LET latest == s[lid]
        hist == HistFlows(s, hq)
    IN IF latest.p = None \/ latest.flow = None \/ latest.depth = None THEN <<>>
       ELSE IF latest.p > args.max_p THEN <<>>
       ELSE IF Len(hist) < args.min_hist THEN <<>>
       ELSE IF Breakdown(latest, hist).score < args.min_score THEN <<>>
       ELSE <<EntryOf(latest, Breakdown(latest, hist))>>

\* `results` when the loop of line 100 is over.
RECURSIVE Survivors(_, _, _, _, _)
Survivors(s, order, latest, hist, args) ==
    IF order = <<>> THEN <<>>
    ELSE Candidate(s, latest[Head(order)], hist[Head(order)], args)
         \o Survivors(s, Tail(order), latest, hist, args)

\* results.sort(key=score, reverse=True) (line 161): descending and stable.
RECURSIVE InsertByScore(_, _)
InsertByScore(sorted, e) ==
    IF sorted = <<>> THEN <<e>>
    ELSE IF Head(sorted).score >= e.score
    THEN <<Head(sorted)>> \o InsertByScore(Tail(sorted), e)
    ELSE <<e>> \o sorted

RECURSIVE SortInto(_, _)
SortInto(sorted, rest) ==
    IF rest = <<>> THEN sorted
    ELSE SortInto(InsertByScore(sorted, Head(rest)), Tail(rest))

\* results[:limit] (line 162).
Slice(xs, limit) ==
    IF limit >= 0 THEN SubSeq(xs, 1, Min(limit, Len(xs)))
    ELSE SubSeq(xs, 1, Max(Len(xs) + limit, 0))

\* Lines 161-162.
Ranked_SliceFirst(results, limit) == SortInto(<<>>, Slice(results, limit))

Ranked(results, limit) == Slice(SortInto(<<>>, results), limit)

\* One get_top call over the committed rows, its arguments in `argset`.  A second call over the same
\* rows returns one of the same lists, so one call is followed per state of
\* the store.
GetTopCall(argset) ==
    /\ top_pc = "none"
    /\ \E args \in argset, order \in KeyOrders(store),
         latest \in LatestChoices(store), hist \in HistChoices(store) :
          LET results == Survivors(store, order, latest, hist, args)
          IN /\ top_pc' = "done"
             /\ top_args' = args
             /\ top_survivors' = results
             /\ top_result' = Ranked(results, args.limit)

\* What a commit does to the record of the last call: it described the
\* store before the commit.
TopForget ==
    /\ top_pc' = "none"
    /\ top_args' = <<>>
    /\ top_survivors' = <<>>
    /\ top_result' = <<>>


(***************************************************************************)
(* Lines 128-135 of get_top on their own: the baseline of a flow history   *)
(* whose first value is the flow of the latest snapshot, and compute_score *)
(* on it.                                                                  *)
(***************************************************************************)
\* The longest history drawn.
MaxHist == 9
\* The longest history drawn with every probability and depth.
ShortHist == 3

ScoreFlows == {0, 40, 100}
ScorePs == {1, 500, 980}
ScoreDepths == {0, 10, 400}

Histories(n) == UNION {[1..k -> ScoreFlows] : k \in 1..n}

ScoreInit ==
    /\ sc_pc = "drawn"
    /\ sc_in \in [p : ScorePs, depth : ScoreDepths, hist : Histories(ShortHist)]
                 \cup [p : {500}, depth : {400}, hist : Histories(MaxHist)]
    /\ sc_bd = <<>>

\* The rows of one entity whose newest-first flows are the history drawn.
ScoreRows(in) ==
    [i \in 1..Len(in.hist) |->
        [platform |-> "mock", market_id |-> "m0", ts |-> Len(in.hist) - i + 1,
         p |-> in.p, flow |-> in.hist[i], depth |-> in.depth, volume_24h |-> None]]

\* The arguments of the get_top call the entity is scored in.
ScoreArgs == {a \in TopArgs : a.limit = MaxLimit /\ a.min_hist = ROLLING_N}

\* Lines 131-137, and the body of the loop as a whole (lines 111-158) for
\* the entity.
ScoreApply ==
    /\ sc_pc = "drawn"
    /\ sc_pc' = "done"
    /\ \E args \in ScoreArgs :
         sc_bd' = LET hist == sc_in.hist
                      latest == [p |-> sc_in.p, flow |-> hist[1], depth |-> sc_in.depth]
                  IN [mu |-> Mean(hist), sigma |-> Sigma(hist),
                      bd |-> Breakdown(latest, hist),
                      args |-> args,
                      kept |-> Candidate(ScoreRows(sc_in), 1,
                                         [i \in 1..Len(hist) |-> i], args)]
    /\ UNCHANGED sc_in
    /\ UNCHANGED <<gjVars, pubVars, connVars, fmVars, mockVars, appVars, topVars, skipVars,
                   entVars, serveVars, pollVars, quoteVars, discVars,
                   pageVars>>
(***************************************************************************)
(* MockConnector (mock.py).  The generator is seeded, so the draws of a    *)
(* run are fixed at construction: mock_step holds, per market, the draw    *)
(* added to p at each fetch (a rising or a falling walk); the flow draws   *)
(* are chosen fetch by fetch.                                              *)
(***************************************************************************)
MockIds == <<"m0", "m1">>
MockIdSet == {MockIds[i] : i \in DOMAIN MockIds}

\* What the seed fixes for one market: random.random() for p,
\* random.uniform(200, 8000) for depth, the uniform(-0.015, 0.015) draws.
MockSeeds ==
    {[p |-> 965, depth |-> 200, step |-> 10],
     [p |-> 995, depth |-> 400, step |-> 0 - 10],
     [p |-> 500, depth |-> 400, step |-> 10]}

\* base + spike of lines 20-22, in units.
MockFlows == {0, 40}

\* __init__ (lines 5-16).
MockInit ==
    \E seed \in [MockIdSet -> MockSeeds] :
        /\ mock_markets = [i \in MockIdSet |->
                [p |-> seed[i].p, flow |-> 0, depth |-> seed[i].depth]]
        /\ mock_step = [i \in MockIdSet |-> seed[i].step]

\* self.markets after a fetch that draws the flows `flows` (lines 19-23).
MockAfterFetch(flows) ==
    [i \in MockIdSet |->
        [p |-> Min(Max(mock_markets[i].p + mock_step[i], 1), 999),
         flow |-> flows[i],
         depth |-> mock_markets[i].depth]]

\* `out` of fetch_markets (lines 18-25): one copy per market, in list order.
MockBatch(markets) ==
    [n \in DOMAIN MockIds |->
        [platform |-> "mock", market_id |-> MockIds[n], p |-> markets[MockIds[n]].p,
         flow |-> markets[MockIds[n]].flow, depth |-> markets[MockIds[n]].depth,
         volume_24h |-> None]]

(***************************************************************************)
(* poll_once (poller.py 54-82) and the application around it (main.py).    *)
(***************************************************************************)
MaxPolls == 3

\* datetime.utcnow() (line 61): the clock never goes back, and two reads
\* may return the same value.  now = 0: not read yet.
ClockReads == IF now = 0 THEN {1} ELSE {now, now + 1}

\* The same clock when time passes between two polls.
ClockAdvances == {now + 1}

\* Mutant of StoreBatch: utcnow() read again for every row.
StoreBatch_StampPerRow(batch, reads) ==
    \E ts \in reads :
        /\ now' = ts + Max(Len(batch) - 1, 0)
        /\ store' = store \o [n \in 1..Len(batch) |-> RowOf(batch[n], ts + n - 1)]
        /\ last_poll' = "stored"
        /\ TopForget

\* Lines 61-82 once fetch_markets has returned `batch`, utcnow() returning
\* one of `reads`.
StoreBatch(batch, reads) ==
    \E ts \in reads :
        /\ now' = ts
        /\ store' = AppendBatch(store, batch, ts)
        /\ last_poll' = "stored"
        /\ TopForget

\* poll_once over the mock connector, whose fetch_markets does no I/O.  The
\* mock runs are followed with time passing between polls; equal timestamps
\* are followed in Spec.
MockPoll ==
    /\ polls < MaxPolls
    /\ \E flows \in [MockIdSet -> MockFlows] :
          /\ mock_markets' = MockAfterFetch(flows)
          /\ StoreBatch(MockBatch(MockAfterFetch(flows)), ClockAdvances)
    /\ polls' = polls + 1
    /\ len_at_poll' = Len(store)
    /\ UNCHANGED <<mock_step, app_pc, running>>
    /\ UNCHANGED <<restVars, gjVars, pubVars, connVars, fmVars>>

\* get_top called on the store the mock polls fill.
MockGetTop ==
    /\ GetTopCall(TopArgs)
    /\ UNCHANGED <<restVars, gjVars, pubVars, connVars, fmVars, mockVars, appVars>>

\* ---- main.py over the Kalshi connector.  What the upstream serves here:
AppSeries == {<<>>, <<"S1">>}
AppItems ==
    {[kind |-> "market", ticker |-> t,
      m |-> [EmptyDict EXCEPT !.yes_bid = 500, !.yes_ask = 500, !.volume = v]] :
        t \in Tickers, v \in {100, 150}}
AppDetails == {[raises |-> TRUE, m |-> EmptyDict]}
AppBooks == {[raises |-> FALSE, levels |-> <<Level2, Level1>>]}

\* The job added at line 32 names no max_instances: the scheduler runs one
\* instance of it at a time.
max_instances == 1

\* Mutant of MayStart: a scheduler that starts a run at every tick.
MayStart_Always(n) == TRUE

\* Whether the scheduler starts a run of the job at a tick, n runs of it
\* being in progress (a tick that may not start one is skipped).
MayStart(n) == n < max_instances

\* _poll (lines 13-20) starts: startup() calls it once (line 31) and goes on
\* when it is over; then the scheduler does, at the ticks of its timer.
PollBegin ==
    /\ \/ app_pc = "startup" /\ running = 0
       \/ app_pc = "running" /\ MayStart(running)
    /\ polls < MaxPolls
    /\ polls' = polls + 1
    /\ running' = running + 1
    /\ len_at_poll' = Len(store)
    /\ FetchEnter
    /\ UNCHANGED <<app_pc, store, now, last_poll>>
    /\ UNCHANGED <<restVars, gjVars, pubVars, mockVars, topVars>>

PollPage ==
    /\ app_pc \in {"startup", "running"}
    /\ PageRequest
    /\ UNCHANGED <<restVars, gjVars, pubVars, mockVars, appVars, topVars>>

PollMarket ==
    /\ app_pc \in {"startup", "running"}
    /\ ProcessMarketIn(AppItems, AppDetails, AppBooks)
    /\ UNCHANGED <<restVars, gjVars, pubVars, mockVars, appVars, topVars>>

\* fetch_markets returned: poll_once stores the batch and _poll returns.
\* After the first _poll, startup() starts the scheduler (lines 32-33).
PollStore ==
    /\ app_pc \in {"startup", "running"}
    /\ fm_pc = "returned"
    /\ StoreBatch(collected, ClockReads)
    /\ app_pc' = "running"
    /\ fm_pc' = "idle"
    /\ collected' = <<>>
    /\ fm_pos' = ZeroPos
    /\ running' = running - 1
    /\ UNCHANGED <<seen, fm_cause, ob_failed, prev_at_call>>
    /\ UNCHANGED <<polls, len_at_poll>>
    /\ UNCHANGED <<restVars, gjVars, pubVars, mockVars, connVars>>

\* fetch_markets raised: poll_once and _poll let the exception through
\* (the finally of line 19 closes the session).  Under the scheduler the
\* job's exception is logged and the next run comes; in startup() it ends
\* startup() before line 32, so the scheduler is never started.
PollRaise ==
    /\ app_pc \in {"startup", "running"}
    /\ fm_pc = "raised"
    /\ last_poll' = "raised"
    /\ app_pc' = IF app_pc = "startup" THEN "failed" ELSE "running"
    /\ fm_pc' = "idle"
    /\ running' = running - 1
    /\ UNCHANGED <<fm_pos, collected, seen, fm_cause, ob_failed, prev_at_call>>
    /\ UNCHANGED <<store, now, polls, len_at_poll>>
    /\ UNCHANGED <<restVars, gjVars, pubVars, mockVars, connVars, topVars>>

\* GET /top (lines 35-41), served once startup() is over.
RouteArgs == {a \in TopArgs : a.min_score = 0 /\ a.min_hist = 3}

TopRoute ==
    /\ app_pc = "running"
    /\ GetTopCall(RouteArgs)
    /\ UNCHANGED <<restVars, gjVars, pubVars, connVars, fmVars, mockVars, appVars>>

AppInit ==
    /\ politics_series \in AppSeries
    /\ prev_volume = [t \in Tickers |-> None]
    /\ app_pc = "startup"
    /\ store = <<>>
    /\ now = 0
    /\ polls = 0
    /\ last_poll = "none"
    /\ len_at_poll = 0
    /\ running = 0


(***************************************************************************)
(* poll_once and get_top side by side: main.py over the mock connector,    *)
(* the poll run by the scheduler thread and GET /top by a worker thread,   *)
(* each with its own session (main.py lines 15 and 37).  poll_once adds    *)
(* its rows one by one and commits them together (lines 62-81); get_top    *)
(* sends one query for the keys and two per key (lines 95-126), and a      *)
(* commit may come between any two of them.                                *)
(***************************************************************************)
\* The rows a query of another session finds: the committed ones, as they
\* are when the query runs (the sessions come from SessionLocal of app/db.py,
\* a reader of which "never observes partial or corrupted rows, only a
\* possibly-stale view relative to an in-flight write").
Visible(st, pend) == st

\* The arguments of the call: the window being ROLLING_N, min_hist is
\* within it.
ServeArgs == {[limit |-> MaxLimit, max_p |-> 980, min_score |-> 0, min_hist |-> ROLLING_N]}

\* The flows one fetch draws.
ServeFlows == {[i \in MockIdSet |-> f] : f \in MockFlows}

ServeIdle ==
    /\ sv_batch = <<>>
    /\ pending = <<>>
    /\ commits = {0}
    /\ q_keys = <<>>
    /\ q_latest = None
    /\ q_views = {}
    /\ q_heads = {}

ServeInit ==
    /\ mock_markets = [i \in MockIdSet |-> [p |-> 500, flow |-> 0, depth |-> 400]]
    /\ mock_step = [i \in MockIdSet |-> 10]
    /\ app_pc = "startup"
    /\ store = <<>>
    /\ now = 0
    /\ polls = 0
    /\ last_poll = "none"
    /\ len_at_poll = 0
    /\ running = 0
    /\ ServeIdle

ServeFrame == UNCHANGED <<gjVars, pubVars, connVars, fmVars, skipVars, entVars, moreVars>>

\* poll_once, lines 59-61: the fetch and the timestamp.
ServeFetch ==
    /\ \/ app_pc = "startup" /\ polls = 0 /\ running = 0
       \/ app_pc = "running" /\ MayStart(running)
    /\ polls < MaxPolls
    /\ \E flows \in ServeFlows, ts \in ClockAdvances :
          /\ mock_markets' = MockAfterFetch(flows)
          /\ sv_batch' = MockBatch(MockAfterFetch(flows))
          /\ now' = ts
    /\ polls' = polls + 1
    /\ running' = running + 1
    /\ len_at_poll' = Len(store)
    /\ UNCHANGED <<mock_step, app_pc, store, last_poll>>
    /\ UNCHANGED <<pending, commits, q_keys, q_latest, q_views, q_heads, topVars>>
    /\ ServeFrame

\* Mutant of ServeAdd: the commit inside the loop, row by row.
ServeAdd_CommitsEach ==
    /\ running = 1
    /\ sv_batch # <<>>
    /\ store' = Append(store, RowOf(Head(sv_batch), now))
    /\ sv_batch' = Tail(sv_batch)
    /\ UNCHANGED <<pending, commits, q_keys, q_latest, q_views, q_heads, topVars, mockVars>>
    /\ UNCHANGED <<app_pc, now, polls, last_poll, len_at_poll, running>>
    /\ ServeFrame

\* One turn of the loop of line 62: db.add of one row.
ServeAdd ==
    /\ running = 1
    /\ sv_batch # <<>>
    /\ pending' = Append(pending, RowOf(Head(sv_batch), now))
    /\ sv_batch' = Tail(sv_batch)
    /\ UNCHANGED <<commits, q_keys, q_latest, q_views, q_heads, topVars, mockVars, appVars>>
    /\ ServeFrame

\* db.commit() (line 81) and the return of _poll; after the first one
\* startup() starts the scheduler and the routes are served.
ServeCommit ==
    /\ running = 1
    /\ sv_batch = <<>>
    /\ store' = store \o pending
    /\ pending' = <<>>
    /\ commits' = commits \cup {Len(store) + Len(pending)}
    /\ last_poll' = "stored"
    /\ app_pc' = "running"
    /\ running' = running - 1
    /\ UNCHANGED <<now, polls, len_at_poll>>
    /\ UNCHANGED <<sv_batch, q_keys, q_latest, q_views, q_heads, topVars, mockVars>>
    /\ ServeFrame

\* get_top, lines 95-99: the query for the keys.
ServeTopKeys ==
    /\ app_pc = "running"
    /\ top_pc = "none"
    /\ LET v == Visible(store, pending)
       IN /\ \E args \in ServeArgs, order \in KeyOrders(v) :
                /\ top_args' = args
                /\ q_keys' = order
          /\ q_views' = {Len(v)}
    /\ q_heads' = {}
    /\ top_pc' = "loop"
    /\ top_survivors' = <<>>
    /\ UNCHANGED <<top_result, q_latest>>
    /\ UNCHANGED <<sv_batch, pending, commits, mockVars, appVars>>
    /\ ServeFrame

\* Lines 101-116 for the next key: the query for its latest row, and the
\* tests on that row.
ServeTopLatest ==
    /\ top_pc = "loop"
    /\ q_keys # <<>>
    /\ LET v == Visible(store, pending)
       IN /\ \E q \in NewestFirst(v, Head(q_keys), 1) :
                IF v[q[1]].p > top_args.max_p
                THEN /\ q_keys' = Tail(q_keys)
                     /\ UNCHANGED <<top_pc, q_latest>>
                ELSE /\ top_pc' = "hist"
                     /\ q_latest' = q[1]
                     /\ UNCHANGED q_keys
          /\ q_views' = q_views \cup {Len(v)}
    /\ UNCHANGED <<top_args, top_survivors, top_result, q_heads>>
    /\ UNCHANGED <<sv_batch, pending, commits, mockVars, appVars>>
    /\ ServeFrame

\* Lines 118-159 for that key: the query for its flows, the statistics, the
\* score and the append to `results`.
ServeTopHist ==
    /\ top_pc = "hist"
    /\ LET v == Visible(store, pending)
       IN /\ \E hq \in NewestFirst(v, Head(q_keys), ROLLING_N) :
                /\ top_survivors' = top_survivors \o Candidate(v, q_latest, hq, top_args)
                /\ q_heads' = IF Len(hq) >= top_args.min_hist
                              THEN q_heads \cup {<<q_latest, hq[1]>>} ELSE q_heads
          /\ q_views' = q_views \cup {Len(v)}
    /\ q_keys' = Tail(q_keys)
    /\ q_latest' = None
    /\ top_pc' = "loop"
    /\ UNCHANGED <<top_args, top_result>>
    /\ UNCHANGED <<sv_batch, pending, commits, mockVars, appVars>>
    /\ ServeFrame

\* Lines 161-162: the sort and the slice.
ServeTopEnd ==
    /\ top_pc = "loop"
    /\ q_keys = <<>>
    /\ top_result' = Ranked(top_survivors, top_args.limit)
    /\ top_pc' = "done"
    /\ UNCHANGED <<top_args, top_survivors, q_keys, q_latest, q_views, q_heads>>
    /\ UNCHANGED <<sv_batch, pending, commits, mockVars, appVars>>
    /\ ServeFrame

(***************************************************************************)
(* poll_once called again and again over one KalshiConnector whose         *)
(* upstream serves, for each ticker, a cumulative volume that never goes   *)
(* down (kalshi.py 236-245 and poller.py 54-82).                           *)
(***************************************************************************)
VolVolumes == {100, 150}

\* The market dicts the upstream may serve for a ticker whose volume was
\* last read as `last` (None: never read): the volume not below it, a bid
\* and an ask or no quote at all.
VolItems(last) ==
    {[kind |-> "market", ticker |-> t, m |-> [q EXCEPT !.volume = v]] :
        q \in {EmptyDict, [EmptyDict EXCEPT !.yes_bid = 500, !.yes_ask = 500]},
        <<t, v>> \in {x \in Tickers \X VolVolumes :
                        last[x[1]] = None \/ x[2] >= last[x[1]]}}

VolDetails ==
    { [raises |-> TRUE, m |-> EmptyDict],
      [raises |-> FALSE, m |-> EmptyDict],
      [raises |-> FALSE, m |-> [EmptyDict EXCEPT !.yes_price = 400]] }
VolBooks == {[raises |-> FALSE, levels |-> <<Level1>>]}

VolFrame ==
    UNCHANGED <<gjVars, pubVars, mockVars, skipVars, entVars, serveVars, scoreVars, quoteVars,
                discVars, pageVars>>

\* poll_once is entered and calls fetch_markets (line 59).
VolBegin ==
    /\ fm_pc = "idle"
    /\ polls < MaxPolls
    /\ polls' = polls + 1
    /\ len_at_poll' = Len(store)
    /\ FetchEnter
    /\ UNCHANGED <<app_pc, store, now, last_poll, running, poll_ret>>
    /\ UNCHANGED topVars
    /\ VolFrame

VolPage ==
    /\ PageRequest
    /\ UNCHANGED <<appVars, topVars, poll_ret>>
    /\ VolFrame

VolMarket ==
    /\ ProcessMarketIn(VolItems(prev_volume), VolDetails, VolBooks)
    /\ UNCHANGED <<appVars, topVars, poll_ret>>
    /\ VolFrame

\* fetch_markets returned: lines 61-82.
VolStore ==
    /\ fm_pc = "returned"
    /\ StoreBatch(collected, ClockAdvances)
    /\ poll_ret' = Len(collected)
    /\ fm_pc' = "idle"
    /\ collected' = <<>>
    /\ fm_pos' = ZeroPos
    /\ UNCHANGED <<seen, fm_cause, ob_failed, prev_at_call>>
    /\ UNCHANGED <<app_pc, polls, len_at_poll, running>>
    /\ UNCHANGED connVars
    /\ VolFrame

\* fetch_markets raised: poll_once lets the exception through and nothing
\* is added.
VolRaise ==
    /\ fm_pc = "raised"
    /\ last_poll' = "raised"
    /\ fm_pc' = "idle"
    /\ UNCHANGED <<fm_pos, collected, seen, fm_cause, ob_failed, prev_at_call>>
    /\ UNCHANGED <<app_pc, store, now, polls, len_at_poll, running>>
    /\ UNCHANGED <<connVars, topVars, poll_ret>>
    /\ VolFrame
(***************************************************************************)
(* Specifications.                                                         *)
(***************************************************************************)
MockIdle == mock_markets = <<>> /\ mock_step = <<>>

AppIdle ==
    /\ app_pc = "script"
    /\ store = <<>>
    /\ now = 0
    /\ polls = 0
    /\ last_poll = "none"
    /\ len_at_poll = 0
    /\ running = 0

TopIdle ==
    /\ top_pc = "none"
    /\ top_args = <<>>
    /\ top_survivors = <<>>
    /\ top_result = <<>>

SkipIdle ==
    /\ skip_hist = [t \in Tickers |-> "never"]
    /\ met = NotMet

ScoreIdle ==
    /\ sc_pc = "none"
    /\ sc_in = <<>>
    /\ sc_bd = <<>>

PollIdle == poll_ret = None

QuoteIdle ==
    /\ ip_pc = "none"
    /\ ip_m = <<>>
    /\ ip_out = None

DiscIdle ==
    /\ dv_pc = "none"
    /\ dv_pages = <<>>
    /\ dv_out = <<>>

PageIdle ==
    /\ pg_pc = "idle"
    /\ pg_max = 0
    /\ pg_cursor = None
    /\ pg_pages = 0
    /\ pg_sent = <<>>
    /\ pg_got = <<>>

MoreIdle == ScoreIdle /\ PollIdle /\ QuoteIdle /\ DiscIdle /\ PageIdle

RestIdle == SkipIdle /\ EntIdle /\ ServeIdle /\ MoreIdle

ConnIdle ==
    /\ politics_series = <<>>
    /\ prev_volume = [t \in Tickers |-> None]

\* _get_json called again and again.
RetryNext == GetJsonCall \/ GetJsonAttempt \/ GetJsonExhausted

InitRetry == GjInit /\ PubIdle /\ ConnIdle /\ FmInit /\ MockIdle /\ AppIdle /\ TopIdle /\ RestIdle
SpecRetry == InitRetry /\ [][RetryNext]_vars

\* The publish filter applied to a ranked list.
PublishNext == ApplyPublishFilter

InitPublish == GjInit /\ PubInit /\ ConnIdle /\ FmInit /\ MockIdle /\ AppIdle /\ TopIdle /\ RestIdle
SpecPublish == InitPublish /\ [][PublishNext]_vars

\* One KalshiConnector instance, fetch_markets called again and again.
ConnNext == FetchCall \/ FetchPage \/ FetchMarket

InitConn == GjInit /\ PubIdle /\ ConnInit /\ FmInit /\ MockIdle /\ AppIdle /\ TopIdle /\ RestIdle
SpecConn == InitConn /\ [][ConnNext]_vars

\* The same on one series, with the history of the tickers passed over.
SkipNext == SkipCall \/ SkipPage \/ SkipMarket

InitSkip ==
    /\ GjInit /\ PubIdle /\ FmInit /\ MockIdle /\ AppIdle /\ TopIdle /\ RestIdle
    /\ politics_series \in {<<"S1">>, <<"S1", "S2">>}
    /\ prev_volume = [t \in Tickers |-> None]
SpecSkip == InitSkip /\ [][SkipNext]_vars

\* entropy applied to pairs of probabilities.
EntropyNext == EntropyApply

InitEntropy ==
    /\ GjInit /\ PubIdle /\ ConnIdle /\ FmInit /\ MockIdle /\ AppIdle /\ TopIdle
    /\ SkipIdle /\ EntInit /\ ServeIdle /\ MoreIdle
SpecEntropy == InitEntropy /\ [][EntropyNext]_vars

\* main.py over the mock connector: the polls and one GET /top, the steps
\* of the two interleaved.
ServeNext ==
    \/ ServeFetch \/ ServeAdd \/ ServeCommit
    \/ ServeTopKeys \/ ServeTopLatest \/ ServeTopHist \/ ServeTopEnd

InitServe ==
    /\ GjInit /\ PubIdle /\ ConnIdle /\ FmInit /\ TopIdle /\ SkipIdle /\ EntIdle
    /\ MoreIdle
    /\ ServeInit
SpecServe == InitServe /\ [][ServeNext]_vars

\* The application: main.py polling the Kalshi connector and serving /top.
Next == PollBegin \/ PollPage \/ PollMarket \/ PollStore \/ PollRaise \/ TopRoute

Init == GjInit /\ PubIdle /\ FmInit /\ MockIdle /\ AppInit /\ TopIdle /\ RestIdle
Spec == Init /\ [][Next]_vars

\* poll_once and get_top called in any order over the mock connector.
MockNext == MockPoll \/ MockGetTop

InitMock == GjInit /\ PubIdle /\ ConnIdle /\ FmInit /\ MockInit /\ AppIdle /\ TopIdle /\ RestIdle
SpecMock == InitMock /\ [][MockNext]_vars

\* poll_once called again and again over one connector instance whose
\* upstream volumes never go down.
VolumeNext == VolBegin \/ VolPage \/ VolMarket \/ VolStore \/ VolRaise

InitVolume ==
    /\ GjInit /\ PubIdle /\ FmInit /\ MockIdle /\ AppIdle /\ TopIdle /\ RestIdle
    /\ politics_series = <<"S1">>
    /\ prev_volume = [t \in Tickers |-> None]
SpecVolume == InitVolume /\ [][VolumeNext]_vars

\* The baseline and compute_score applied to a latest snapshot and a flow
\* history.
ScoreNext == ScoreApply

InitScore ==
    /\ GjInit /\ PubIdle /\ ConnIdle /\ FmInit /\ MockIdle /\ AppIdle /\ TopIdle
    /\ SkipIdle /\ EntIdle /\ ServeIdle /\ PollIdle /\ QuoteIdle /\ DiscIdle
    /\ PageIdle
    /\ ScoreInit
SpecScore == InitScore /\ [][ScoreNext]_vars

\* _implied_p applied to a market dict.
QuoteNext == QuoteApply

InitQuote ==
    /\ GjInit /\ PubIdle /\ ConnIdle /\ FmInit /\ MockIdle /\ AppIdle /\ TopIdle
    /\ SkipIdle /\ EntIdle /\ ServeIdle /\ ScoreIdle /\ PollIdle /\ DiscIdle
    /\ PageIdle
    /\ QuoteInit
SpecQuote == InitQuote /\ [][QuoteNext]_vars

\* _discover_politics_series applied to the pages of a /series listing.
DiscoverNext == DiscoverApply

InitDiscover ==
    /\ GjInit /\ PubIdle /\ ConnIdle /\ FmInit /\ MockIdle /\ AppIdle /\ TopIdle
    /\ SkipIdle /\ EntIdle /\ ServeIdle /\ ScoreIdle /\ PollIdle /\ QuoteIdle
    /\ PageIdle
    /\ DiscoverInit
SpecDiscover == InitDiscover /\ [][DiscoverNext]_vars

\* _iter_paged run again and again, each page fetched by _get_json.
PagingNext ==
    \/ IterCall \/ IterRequest \/ IterExhausted \/ IterAttempt \/ IterRetriesExhausted
    \/ IterYield \/ IterRaise \/ IterResume \/ IterClose

InitPaging ==
    GjInit /\ PubIdle /\ ConnIdle /\ FmInit /\ MockIdle /\ AppIdle /\ TopIdle /\ RestIdle
SpecPaging == InitPaging /\ [][PagingNext]_vars

\* The same, the thread that runs the generator and its consumer going on
\* running: a request returns or raises within its timeout (line 53) and a
\* sleep ends.
SpecPagingLive == SpecPaging /\ WF_vars(PagingNext)
(***************************************************************************)
(* Claims.                                                                 *)
(***************************************************************************)

\* C2: N consecutive 429 responses followed by a success: the call returns
\* the success whenever N <= max_retries and raises the rate-limit error
\* whenever N > max_retries.
C2_RetryCeiling ==
    (GjDone /\ srv_final = "ok") =>
        IF srv_n429 <= max_retries THEN gj_pc = "returned" ELSE gj_pc = "raised_429"

\* The four conditions as the claim states them.
AllFour(r) ==
    /\ r.z_flow >= Z_MIN
    /\ r.depth_ratio >= DR_MIN
    /\ r.entropy >= H_MIN
    /\ P_MIN <= r.p /\ r.p <= P_MAX

FailsExactlyOne(r) ==
    Cardinality({c \in 1..4 :
        \/ c = 1 /\ r.z_flow < Z_MIN
        \/ c = 2 /\ r.depth_ratio < DR_MIN
        \/ c = 3 /\ r.entropy < H_MIN
        \/ c = 4 /\ ~(P_MIN <= r.p /\ r.p <= P_MAX)}) = 1

\* C9: the publish filter keeps exactly the entries for which all four
\* conditions hold, in their ranked order; an entry violating exactly one of
\* them is removed.
C9_PublishFilter ==
    pub_pc = "filtered" =>
        /\ pub_filtered = SelectSeq(pub_results, AllFour)
        /\ \A i \in 1..Len(pub_results) :
              FailsExactlyOne(pub_results[i]) =>
                 \A j \in 1..Len(pub_filtered) : pub_filtered[j] # pub_results[i]

\* A list with the example candidate (kept) and its p = 0.97 variant (removed).
C9_Witness ==
    /\ pub_pc = "filtered"
    /\ pub_results = <<PubCandidate, [PubCandidate EXCEPT !.p = 970]>>
    /\ pub_filtered = <<PubCandidate>>

\* C1: every observation of a batch has flow = max(volume - previous, 0),
\* previous being the volume the connector recorded for the entity when it
\* last processed it (the volume itself on first sight); the flow is never
\* negative, and the volume becomes the recorded one.
C1_FlowDelta ==
    \A i \in 1..Len(collected) :
        LET o == collected[i]
            recorded == prev_at_call[o.market_id]
            previous == IF recorded = None THEN o.volume_24h ELSE recorded
        IN /\ o.flow = Max(o.volume_24h - previous, 0)
           /\ o.flow >= 0
           /\ prev_volume[o.market_id] = o.volume_24h

\* A batch with a rise 100 -> 150 (flow 50) and a regression 150 -> 100 (flow 0).
C1_Witness ==
    /\ fm_pc = "returned"
    /\ \E i, j \in 1..Len(collected) :
          /\ prev_at_call[collected[i].market_id] = 100
          /\ collected[i].volume_24h = 150 /\ collected[i].flow = 50
          /\ prev_at_call[collected[j].market_id] = 150
          /\ collected[j].volume_24h = 100 /\ collected[j].flow = 0

\* C3: a failure confined to one entity never makes fetch_markets raise: the
\* call raises only when a page request fails.
C3_EntityFailureContained == fm_pc = "raised" => fm_cause = "page"

\* C10: an entity whose order-book step raised is in the batch with depth 0,
\* and the call goes on.
C10_DegradedDepth ==
    \A t \in ob_failed :
        /\ fm_pc # "raised"
        /\ \E i \in 1..Len(collected) :
              collected[i].market_id = t /\ collected[i].depth = 0

\* A returned batch whose first entity lost its order book and whose second
\* entity has the depth of its own order book.
C10_Witness ==
    /\ fm_pc = "returned"
    /\ Len(collected) = 2
    /\ collected[1].market_id \in ob_failed /\ collected[1].depth = 0
    /\ collected[2].market_id \notin ob_failed /\ collected[2].depth = 10


\* C4.  The store is append-only: a step never removes or changes a row
\* already stored; the only step that adds rows is the commit of a poll
\* whose fetch returned, and it adds exactly one row per observation of the
\* batch, equal (platform, market_id, ts) or not; a poll whose fetch raised
\* and a get_top call leave the store as it was.
C4_AppendOnly ==
    [][ /\ Len(store') >= Len(store)
        /\ \A i \in DOMAIN store : store'[i] = store[i]
        /\ IF fm_pc = "returned" /\ fm_pc' = "idle"
           THEN /\ Len(store') = Len(store) + Len(collected)
                /\ \A n \in DOMAIN collected :
                      /\ KeyOf(store'[Len(store) + n]) = KeyOf(collected[n])
                      /\ store'[Len(store) + n].flow = collected[n].flow
                      /\ store'[Len(store) + n].ts = now'
           ELSE store' = store
        /\ (top_pc = "none" /\ top_pc' = "done") => store' = store ]_vars

\* Two rows with the same (platform, market_id, ts) are stored, and a
\* get_top call has run over them.
C4_Witness ==
    /\ top_pc = "done"
    /\ \E i, j \in DOMAIN store :
          i < j /\ KeyOf(store[i]) = KeyOf(store[j]) /\ store[i].ts = store[j].ts

\* C5.  As stated: once a poll has ended because its fetch raised, the store
\* is what it was when that poll started and the application goes on
\* polling (the next tick can run).
C5_FailedTickIsolated ==
    last_poll = "raised" => (Len(store) = len_at_poll /\ app_pc = "running")

\* The rows of key k with the greatest ts.
NewestIds(s, k) == {i \in IdsOf(s, k) : \A j \in IdsOf(s, k) : s[j].ts <= s[i].ts}

InResult(k) == \E i \in DOMAIN top_result : KeyOf(top_result[i]) = k

\* C6.  For limit >= 0 the list get_top returns is sorted by score,
\* non-increasing, has one entry at most per (platform, market_id), is made
\* of qualifying entries (those that passed every filter), has length
\* min(limit, number of qualifying entries), and leaves out no qualifying
\* entry with a score above that of an entry it returns.
C6_RankedOutput ==
    (top_pc = "done" /\ top_args.limit >= 0) =>
        /\ \A i, j \in DOMAIN top_result :
              i < j => top_result[i].score >= top_result[j].score
        /\ \A i, j \in DOMAIN top_result :
              i # j => KeyOf(top_result[i]) # KeyOf(top_result[j])
        /\ \A i, j \in DOMAIN top_survivors :
              i # j => KeyOf(top_survivors[i]) # KeyOf(top_survivors[j])
        /\ \A j \in DOMAIN top_survivors : KeyOf(top_survivors[j]) \in Keys(store)
        /\ Len(top_result) = Min(top_args.limit, Len(top_survivors))
        /\ \A i \in DOMAIN top_result :
              \E j \in DOMAIN top_survivors : top_result[i] = top_survivors[j]
        /\ \A j \in DOMAIN top_survivors :
              ~InResult(KeyOf(top_survivors[j])) =>
                  \A i \in DOMAIN top_result :
                      top_survivors[j].score <= top_result[i].score

\* Two entries qualify, the loop met the lower score first, the limit is 1
\* and the entry returned is the one with the higher score.
C6_Witness ==
    /\ top_pc = "done"
    /\ top_args.limit = 1
    /\ Len(top_survivors) = 2
    /\ top_survivors[1].score < top_survivors[2].score
    /\ top_result = <<top_survivors[2]>>

\* C7.  A key whose newest rows all have p above max_p is not in the list
\* get_top returns, and every entry returned carries the p and ts of a
\* newest row of its key, p at most max_p: older rows play no part.
C7_CeilingOnLatest ==
    top_pc = "done" =>
        /\ \A k \in Keys(store) :
              (\A i \in NewestIds(store, k) : store[i].p > top_args.max_p) => ~InResult(k)
        /\ \A n \in DOMAIN top_result :
              /\ top_result[n].p <= top_args.max_p
              /\ \E i \in NewestIds(store, KeyOf(top_result[n])) :
                    store[i].p = top_result[n].p /\ store[i].ts = top_result[n].ts

\* One key is left out for its latest p although its earlier p was under
\* the ceiling and its history is long enough; another is returned although
\* its earlier p was above the ceiling.
C7_Witness ==
    /\ top_pc = "done"
    /\ \E k \in Keys(store) :
          /\ ~InResult(k)
          /\ Cardinality(IdsOf(store, k)) >= top_args.min_hist
          /\ top_args.min_hist <= ROLLING_N
          /\ \A i \in NewestIds(store, k) : store[i].p > top_args.max_p
          /\ \E i \in IdsOf(store, k) : store[i].p <= top_args.max_p
    /\ \E k \in Keys(store) :
          /\ InResult(k)
          /\ \E i \in IdsOf(store, k) : store[i].p > top_args.max_p

\* Whether key k passes every test of get_top but the one on the length of
\* its history, and the limit cuts nothing.
PassesButHistory(k) ==
    /\ \A i \in NewestIds(store, k) : store[i].p <= top_args.max_p
    /\ top_args.min_score <= 0
    /\ top_args.limit >= Cardinality(Keys(store))

\* C8 as stated.  A key with fewer than min_hist rows is not in the list
\* get_top returns, and a key is eligible from the poll that stores its
\* min_hist-th row on: with min_hist rows or more it is returned when it
\* passes the other tests.
C8_MinHistAsStated ==
    top_pc = "done" =>
        /\ \A k \in Keys(store) :
              Cardinality(IdsOf(store, k)) < top_args.min_hist => ~InResult(k)
        /\ \A k \in Keys(store) :
              (Cardinality(IdsOf(store, k)) >= top_args.min_hist /\ PassesButHistory(k))
                  => InResult(k)

\* C8, amended.  The same, the second part for min_hist <= ROLLING_N only:
\* the history read is capped at ROLLING_N rows.
C8_MinHist ==
    top_pc = "done" =>
        /\ \A k \in Keys(store) :
              Cardinality(IdsOf(store, k)) < top_args.min_hist => ~InResult(k)
        /\ \A k \in Keys(store) :
              ( /\ Cardinality(IdsOf(store, k)) >= top_args.min_hist
                /\ top_args.min_hist <= ROLLING_N
                /\ PassesButHistory(k) )
                  => InResult(k)

\* The poll that stored the min_hist-th row of a key has committed and the
\* key is returned.
C8_Witness ==
    /\ top_pc = "done"
    /\ \E k \in Keys(store) :
          /\ Cardinality(IdsOf(store, k)) = top_args.min_hist
          /\ InResult(k)


\* C12.  An HTTP error status other than 429, or a transport failure, ends
\* the call at once: the call raises on that response, having sent one
\* request for it (one per 429 before it, and one more), slept for the 429
\* responses only, and it sends nothing afterwards.
C12_ErrorRaisesAtOnce ==
    /\ (GjDone /\ srv_final \in {"error", "transport"} /\ srv_n429 < max_retries) =>
          /\ gj_pc = IF srv_final = "error" THEN "raised_http" ELSE "raised_transport"
          /\ gj_requests = srv_n429 + 1
          /\ gj_attempt = srv_n429
          /\ srv_n429 = 0 => gj_slept = None
    /\ gj_pc \in {"raised_http", "raised_transport"} =>
          /\ srv_final \in {"error", "transport"}
          /\ gj_requests = srv_n429 + 1

\* The first response is an HTTP error: one request, no sleep, the call has
\* raised.
C12_Witness ==
    /\ gj_pc = "raised_http"
    /\ gj_requests = 1
    /\ gj_attempt = 0
    /\ gj_slept = None

\* The delays of the claim, in ms: 0.5, 1, 2, 4, 8, 8 seconds.
BackoffSchedule == <<500, 1000, 2000, 4000, 8000, 8000>>

\* C13.  The sleep after the k-th 429 response of a call is the Retry-After
\* duration when the header carries one, otherwise the k-th delay of the
\* schedule 0.5, 1, 2, 4, 8, 8 s, plus a jitter of 0.25 s at most; the base
\* delay never exceeds 8 s.
C13_BackoffSchedule ==
    /\ gj_delay <= 8000
    /\ (gj_attempt >= 1 /\ gj_attempt <= Len(BackoffSchedule)) =>
          \E jitter \in 0..250 :
              gj_slept = jitter + (IF gj_ra = "2" THEN 2000
                                   ELSE BackoffSchedule[gj_attempt])

\* The sixth 429 response of a call, without a Retry-After header: the
\* sleep is the second 8 s of the schedule, with the largest jitter.
C13_Witness ==
    /\ gj_attempt = 6
    /\ gj_ra = "absent"
    /\ gj_slept = 8250


\* The tickers of the observations collected so far.
Collected == {collected[i].market_id : i \in DOMAIN collected}

\* C11: a market for which neither its listing nor its detail yields a
\* probability is passed over for this call: no observation of it is
\* collected and its volume memory stays what it was when the call began;
\* nothing of it is remembered for the next call, which starts with no
\* ticker seen and evaluates the market afresh.
C11_SkippedThisPollOnly ==
    /\ \A t \in Tickers :
          (skip_hist[t] = "now" /\ fm_pc # "raised") =>
              /\ t \notin Collected
              /\ prev_volume[t] = prev_at_call[t]
    /\ (fm_pc = "page" /\ fm_pos.si = 1 /\ fm_pos.page = 0) =>
          seen = {} /\ collected = <<>>

C11_Witness ==
    \E t \in Tickers : skip_hist[t] = "before" /\ t \in Collected

\* C14: every observation a connector has emitted, and every stored row, has
\* p within [0.001, 0.999], a flow of zero or more and a depth of zero or
\* more, whatever the upstream served.
InRanges(o) == 1 <= o.p /\ o.p <= 999 /\ o.flow >= 0 /\ o.depth >= 0

C14_ObservationRanges ==
    /\ \A i \in DOMAIN collected : InRanges(collected[i])
    /\ \A i \in DOMAIN store : InRanges(store[i])
    /\ mock_markets # <<>> => \A id \in MockIdSet : InRanges(mock_markets[id])

\* C15: no two observations of a batch have the same entity identifier,
\* however often the call met the entity on its pages; the observation of
\* an entity comes from its first occurrence, never from a later one.
C15_OneObservationPerEntity ==
    /\ \A i, j \in DOMAIN collected :
          i # j => collected[i].market_id # collected[j].market_id
    /\ \A t \in Tickers : met[t].emitted_at <= 1

C15_Witness ==
    /\ fm_pc = "returned"
    /\ Len(politics_series) = 2
    /\ \E t \in Tickers : met[t].times = 2 /\ met[t].emitted_at = 1 /\ t \in Collected

\* C16: a batch never holds more than limit_markets observations, and
\* fetch_markets is at a point where it sends a page, detail or order-book
\* request only while the batch is under the cap: once the cap is reached
\* the call has returned, whatever was left to visit.
C16_CapEndsTheCycle ==
    /\ Len(collected) <= limit_markets
    /\ fm_pc \in {"page", "markets"} => Len(collected) < limit_markets
    /\ fm_pos.more => fm_pc = "returned" /\ Len(collected) = limit_markets

C16_Witness == fm_pc = "returned" /\ fm_pos.more /\ Len(collected) = limit_markets

\* C17: at most one run of _poll is in progress at any time, so the one
\* connector is inside fetch_markets for one poll at most; while startup()
\* runs its poll no other run exists, and the scheduler, started after it,
\* never has a second run beside one in progress.
C17_OnePollAtATime ==
    /\ running \in {0, 1}
    /\ running = 0 <=> fm_pc = "idle"
    /\ app_pc = "startup" => polls = running
    /\ (app_pc = "running" /\ polls = 1) => running = 0

C17_Witness == app_pc = "running" /\ polls >= 2 /\ running = 1 /\ fm_pc = "markets"

\* C19: when discovery found no series, fetch_markets is never at a request
\* and never raises: every poll returns an empty batch and stores nothing,
\* startup() goes through, and get_top over the store without entities
\* returns the empty list.
C19_NothingDiscovered ==
    /\ politics_series = <<>> =>
          /\ fm_pc \in {"idle", "returned"}
          /\ collected = <<>>
          /\ store = <<>>
          /\ last_poll # "raised" /\ app_pc # "failed"
    /\ (store = <<>> /\ top_pc = "done") => top_result = <<>>

C19_Witness ==
    /\ politics_series = <<>>
    /\ polls >= 2 /\ running = 0 /\ last_poll = "stored"
    /\ top_pc = "done" /\ top_result = <<>>

\* How far a probability is from 0.5, in permille.
FromHalf(p) == IF p >= 500 THEN p - 500 ELSE 500 - p

ResultsOver(s, args) ==
    {Ranked(Survivors(s, order, latest, hist, args), args.limit) :
        order \in KeyOrders(s), latest \in LatestChoices(s), hist \in HistChoices(s)}

\* Whether the entry e of a result describes the row r.
EntryOfRow(e, r) ==
    /\ e.platform = r.platform /\ e.market_id = r.market_id /\ e.ts = r.ts
    /\ e.p = r.p /\ e.flow = r.flow /\ e.depth = r.depth

\* C18: the result of a get_top call is the one get_top gives
\* on one state of the table, a state some whole number of committed
\* batches left.
C18_OneStoreState ==
    top_pc = "done" =>
        \E n \in commits : top_result \in ResultsOver(SubSeq(store, 1, n), top_args)

\* What holds of partial writes: every query of a get_top call finds the table as a whole number of
\* committed batches left it, never the rows a poll has added and not
\* committed, and every entry of its result describes a committed row.
C18_CommittedBatchesOnly ==
    /\ q_views \subseteq commits
    /\ \A i \in DOMAIN top_survivors :
          \E j \in DOMAIN store : EntryOfRow(top_survivors[i], store[j])
    /\ top_pc = "done" =>
          \A i \in DOMAIN top_result :
              \E j \in DOMAIN store : EntryOfRow(top_result[i], store[j])

C18_Witness ==
    /\ top_pc = "done" /\ top_result # <<>>
    /\ Cardinality(q_views) >= 2
    /\ pending # <<>>

\* The flows of the rows of ids, summed.
RECURSIVE SumFlows(_, _)
SumFlows(s, ids) ==
    IF ids = {} THEN 0
    ELSE LET i == CHOOSE x \in ids : TRUE
         IN s[i].flow + SumFlows(s, ids \ {i})

FirstId(s, k) == CHOOSE i \in IdsOf(s, k) : \A j \in IdsOf(s, k) : i <= j
LastId(s, k) == CHOOSE i \in IdsOf(s, k) : \A j \in IdsOf(s, k) : i >= j

\* C21: the upstream volume of every entity never going down, the flows of
\* the snapshots stored for an entity sum to the volume of its latest
\* snapshot minus the volume of its first one, after any sequence of polls,
\* those whose fetch raised part-way included.
C21_VolumeConservation ==
    \A k \in Keys(store) :
        SumFlows(store, IdsOf(store, k))
          = store[LastId(store, k)].volume_24h - store[FirstId(store, k)].volume_24h

\* (k - 1) / sqrt(k), in thousandths.
ZBound(k) == ISqrt(((k - 1) * (k - 1) * FP * FP) \div k)

\* C22: the history of k flows holding the flow of the latest snapshot,
\* z_flow is at most (k - 1) / sqrt(k), to the two thousandths that the
\* rounding of mu and sigma to hundredths can add; with fewer than 9 values
\* it is below the publish threshold Z_MIN, whatever the flows.
C22_ZFlowBound ==
    sc_pc = "done" =>
        LET k == Len(sc_in.hist)
            z == sc_bd.bd.z_flow
        IN /\ z <= ZBound(k) + 2
           /\ k < 9 => z < Z_MIN

\* Eight values, one flow among zeros: the bound is reached, below Z_MIN.
C22_Witness ==
    /\ sc_pc = "done"
    /\ Len(sc_in.hist) = 8
    /\ sc_in.hist[1] > 0
    /\ \A i \in 2..8 : sc_in.hist[i] = 0
    /\ sc_bd.bd.z_flow >= ZBound(8) - 2

\* C23: within one get_top call, for every entity it scores, the snapshot
\* used as latest is the newest element of the history used for the
\* baseline, also when a poll commits between the two reads.
C23_LatestHeadsHistory == \A h \in q_heads : h[1] = h[2]

\* The rows of s less those that ROLLING_N or more rows of their key are
\* newer than.
InWindow(s, r) ==
    Cardinality({j \in DOMAIN s : KeyOf(s[j]) = KeyOf(r) /\ s[j].ts > r.ts}) < ROLLING_N
Trim(s) == SelectSeq(s, LAMBDA r : InWindow(s, r))

\* The entries get_top may score when all its queries find the rows s.
ScoredOver(s, args) ==
    {LET res == Survivors(s, order, latest, hist, args)
     IN {res[i] : i \in DOMAIN res} :
        order \in KeyOrders(s), latest \in LatestChoices(s), hist \in HistChoices(s)}

\* C24: the entries a get_top call scores are those it scores on the table
\* less every row older than the ROLLING_N newest of its key (such rows
\* change no z_flow and no score), each baseline is taken over
\* min(ROLLING_N, count) rows, and every query over the same table scores
\* the same entries.
C24_BaselineWindow ==
    top_pc = "done" =>
        LET scored == {top_survivors[i] : i \in DOMAIN top_survivors}
        IN /\ ScoredOver(store, top_args) = {scored}
           /\ ScoredOver(Trim(store), top_args) = {scored}
           /\ \A h \in HistChoices(store) : \A k \in Keys(store) :
                 Len(h[k]) = Min(ROLLING_N, Cardinality(IdsOf(store, k)))

\* A key with more rows than the window is scored, and its oldest row has a
\* flow that the rows of the window do not have.
C24_Witness ==
    /\ top_pc = "done"
    /\ \E i \in DOMAIN top_survivors :
          LET k == KeyOf(top_survivors[i])
              old == FirstId(store, k)
          IN /\ Cardinality(IdsOf(store, k)) > ROLLING_N
             /\ ~InWindow(store, store[old])
             /\ \A j \in IdsOf(store, k) \ {old} : store[j].flow # store[old].flow

\* C25: a poll_once that returns has called fetch_markets once, has added
\* one row per observation of the batch, in batch order, all with one
\* timestamp read after the fetch, and returns the length of the batch, by
\* which the table has grown.
C25_OneBatchOneStamp ==
    [][ /\ (polls' # polls) <=> (fm_pc = "idle" /\ fm_pc' # "idle")
        /\ polls' \in {polls, polls + 1}
        /\ (fm_pc = "returned" /\ fm_pc' = "idle") =>
              /\ Len(store) = len_at_poll
              /\ Len(store') = Len(store) + Len(collected)
              /\ SubSeq(store', 1, Len(store)) = store
              /\ \A n \in DOMAIN collected :
                    store'[Len(store) + n] = RowOf(collected[n], now')
              /\ now' > now
              /\ poll_ret' = Len(collected)
              /\ poll_ret' = Len(store') - Len(store)
        /\ ~(fm_pc = "returned" /\ fm_pc' = "idle") => store' = store ]_vars

\* A poll has stored a batch of two observations on top of an earlier one.
C25_Witness ==
    /\ last_poll = "stored"
    /\ poll_ret = 2
    /\ fm_pc = "idle"
    /\ Len(store) = len_at_poll + 2
    /\ len_at_poll > 0
    /\ store[Len(store)].ts = store[Len(store) - 1].ts
    /\ store[Len(store)].market_id # store[Len(store) - 1].market_id

\* The three sources of a market dict, in the order of the chain: whether
\* each is there, and the price it gives.
SourceThere(m) ==
    <<m.yes_bid # None /\ m.yes_ask # None /\ m.yes_bid > 0 /\ m.yes_ask > 0,
      m.yes_price # None,
      m.last_price # None>>
SourcePrice(m) == <<(m.yes_bid + m.yes_ask) \div 2, m.yes_price, m.last_price>>

\* C26: the implied probability is the price of the first source that is
\* there, in the order midpoint of bid and ask (both quoted and positive),
\* quoted mid price, last trade price, as a probability clamped to
\* [0.001, 0.999]; there is none exactly when no source is there.
C26_FallbackChain ==
    ip_pc = "done" =>
        LET there == SourceThere(ip_m)
            price == SourcePrice(ip_m)
        IN /\ (ip_out = None) <=> (\A n \in 1..3 : ~there[n])
           /\ \A n \in 1..3 :
                 (there[n] /\ \A e \in 1..(n - 1) : ~there[e]) =>
                     /\ ip_out = Max(1, Min(999, price[n]))
                     /\ ip_out \in 1..999

\* The last trade price is used, above the clamp's floor, because the ask
\* is zero and no mid price is quoted.
C26_Witness ==
    /\ ip_pc = "done"
    /\ ip_m.yes_bid = 400 /\ ip_m.yes_ask = 0
    /\ ip_m.yes_price = None /\ ip_m.last_price = 200
    /\ ip_out = 200

\* The dicts the pages list, and whether a text holds a keyword.
ListedDicts ==
    UNION {{dv_pages[n][i].d : i \in {j \in DOMAIN dv_pages[n] : dv_pages[n][j].kind = "dict"}} :
              n \in DOMAIN dv_pages}
HasKeyword(text) == \E k \in keys : Contains(lower(text), k)
Discovered == {dv_out[i] : i \in DOMAIN dv_out}
StrictlySorted(ts) == \A i, j \in DOMAIN ts : i < j => StrLess(ts[i], ts[j])

\* C27 as stated: the list holds exactly the identifiers of the groupings
\* of which the category, the title or the identifier holds a keyword, each
\* once, in lexicographic order.
C27_DiscoveryAsStated ==
    dv_pc = "done" =>
        /\ Discovered =
              {TickerOf(d) : d \in
                  {x \in ListedDicts :
                      /\ ~Falsy(TickerOf(x))
                      /\ \/ HasKeyword(x.category)
                         \/ HasKeyword(Or(x.title, x.name))
                         \/ HasKeyword(TickerOf(x))}}
        /\ StrictlySorted(dv_out)

\* C27: the list holds exactly the identifiers (the ticker, else the
\* series_ticker) of the groupings of which the category or the title text
\* holds a keyword, the title text being the title, else the name, else the
\* ticker; each once, in lexicographic order, whatever the order and the
\* paging of the listing.
C27_Discovery ==
    dv_pc = "done" =>
        /\ Discovered =
              {TickerOf(d) : d \in
                  {x \in ListedDicts :
                      /\ ~Falsy(TickerOf(x))
                      /\ \/ HasKeyword(x.category)
                         \/ HasKeyword(Or(Or(x.title, x.name), x.ticker))}}
        /\ StrictlySorted(dv_out)

\* A grouping whose ticker holds a keyword is left out, its title holding
\* none, next to one that is kept.
C27_Witness ==
    /\ dv_pc = "done"
    /\ Len(dv_out) = 1
    /\ TextGOP \notin Discovered
    /\ \E d \in ListedDicts :
          d.ticker = TextGOP /\ d.title = TextPx /\ ~HasKeyword(d.category)

\* The cursors a page can carry, None and "" left out.
RealCursors == CursorVals \ {None, 0}

PagingRunning == pg_pc \in {"top", "request", "yielded"}
PagingOver == pg_pc \in {"ended", "closed", "raised"}

\* What holds at every moment of a run of _iter_paged.
PagingBounded ==
    /\ pg_pages <= pg_max
    /\ Len(pg_sent) = pg_pages
    /\ gj_requests <= max_retries
    /\ \A i \in 1..(Len(pg_sent) - 1) : pg_got[i] \in RealCursors
    /\ \A i \in 1..Len(pg_sent) :
          pg_sent[i] = (IF i = 1 THEN None ELSE pg_got[i - 1])

\* C28: a run of _iter_paged ends, whatever cursors the server returns: it
\* makes at most max_pages page requests, each of at most max_retries HTTP
\* requests, no request follows a page without a cursor, the first request
\* carries no cursor and every later one the cursor of the page before it.
C28_PagingTerminates == [](PagingBounded) /\ (PagingRunning ~> PagingOver)

\* The server repeated one cursor on every page and the run ended at
\* max_pages.
C28_Witness ==
    /\ pg_pc = "ended"
    /\ pg_max >= 2
    /\ pg_pages = pg_max
    /\ Len(pg_got) = pg_max
    /\ \A i \in 1..Len(pg_got) : pg_got[i] = 1

\* C29: an entity whose flow and depth are not negative has a score that is
\* not negative, and 0 when its latest flow is 0; in a get_top call with
\* min_score = 0 it is kept whenever its probability is within the ceiling
\* and its history long enough, with that score.
C29_FloorExcludesNothing ==
    sc_pc = "done" =>
        LET flow == sc_in.hist[1]
            score == sc_bd.bd.score
            args == sc_bd.args
        IN /\ flow >= 0 /\ sc_in.depth >= 0
           /\ score >= 0
           /\ flow = 0 => score = 0
           /\ (/\ args.min_score = 0
               /\ sc_in.p <= args.max_p
               /\ Len(sc_in.hist) >= args.min_hist)
                  => sc_bd.kept # <<>> /\ sc_bd.kept[1].score = score

\* A latest flow of 0 after positive flows: z_flow is negative, the score is
\* 0 and the entity is kept by the floor of 0.
C29_Witness ==
    /\ sc_pc = "done"
    /\ sc_in.hist[1] = 0
    /\ \E i \in DOMAIN sc_in.hist : sc_in.hist[i] > 0
    /\ sc_bd.bd.z_flow < 0
    /\ sc_bd.args.min_score = 0
    /\ sc_bd.kept # <<>>
    /\ sc_bd.kept[1].score = 0

=============================================================================
